---- MODULE Spec2Model ----
(***************************************************************************)
(* Model of the analysis pipeline of the video analysis application:       *)
(*   ResponseParser (python/AiService/response_parser.py) turns the text a *)
(*     generative model returned into a validated analysis object;         *)
(*   GeminiService (python/services/gemini_service.py) validates a video,  *)
(*     uploads it, waits for it to become active and asks for an analysis; *)
(*   PromptBuilder (python/AiService/prompt_builder.py) assembles the      *)
(*     prompt, rendering the stored task template;                         *)
(*   the DAOs of python/database and HistoryService (python/services/      *)
(*     history_service.py) store recordings, analyses and details in the   *)
(*     schema of database_manager.py;                                      *)
(*   HistoryViewModel (python/viewmodels/history_viewmodel.py) starts the  *)
(*     analysis and rendering workers and handles their signals;         *)
(*   AnalyzerService and RecorderService (python/services) keep the        *)
(*     analysis and the recording session, PromptTemplateDAO the default   *)
(*     template of a category, DatabaseManager its one instance.           *)
(* Each component has its own specification (Spec, GeminiSpec, WaitSpec,   *)
(* PromptSpec, DbSpec, VmSpec, AnalyzerSpec, RecorderSpec, TemplateSpec,   *)
(* ManagerSpec); the variables of the others stay idle.                    *)
(*                                                                         *)
(* A text is a sequence of characters, each a one-character string.  A     *)
(* decoded JSON value is a tagged record:                                  *)
(*   [t |-> "str",  s  |-> characters]                                     *)
(*   [t |-> "num",  k, m, neg, ip, fr]      (see MkNum)                    *)
(*   [t |-> "bool", b  |-> BOOLEAN]                                        *)
(*   [t |-> "null"]                                                        *)
(*   [t |-> "arr",  xs |-> sequence of values]                             *)
(*   [t |-> "obj",  kv |-> sequence of <<key, value>>]   (a Python dict,   *)
(*                                          in insertion order)            *)
(***************************************************************************)
EXTENDS Integers, Sequences, FiniteSets, TLC

----------------------------------------------------------------------------
(* Characters *)

QUOTE == "\""
BSL == "\\"
NL == "\n"
CR == "\r"
TAB == "\t"
\* the backquote character (the module's string syntax has no literal for it)
TICK == "BACKQUOTE"
\* what At returns beyond the end of a text
EOF == ""

\* the whitespace of str.strip, of the regex class \s and of JSON, within
\* the alphabet of the model
WS == {" ", TAB, NL, CR}

Digits == {"0", "1", "2", "3", "4", "5", "6", "7", "8", "9"}

DigitVal(c) ==
    CASE c = "0" -> 0 [] c = "1" -> 1 [] c = "2" -> 2 [] c = "3" -> 3
      [] c = "4" -> 4 [] c = "5" -> 5 [] c = "6" -> 6 [] c = "7" -> 7
      [] c = "8" -> 8 [] c = "9" -> 9

At(s, i) == IF i >= 1 /\ i <= Len(s) THEN s[i] ELSE EOF

\* s[i..] starts with p
HasPrefix(s, i, p) ==
    /\ i >= 1
    /\ i + Len(p) - 1 <= Len(s)
    /\ \A k \in 1..Len(p) : s[i + k - 1] = p[k]

RECURSIVE SkipWS(_, _)
SkipWS(s, i) == IF At(s, i) \in WS THEN SkipWS(s, i + 1) ELSE i

RECURSIVE SkipWSBack(_, _)
SkipWSBack(s, i) == IF At(s, i) \in WS THEN SkipWSBack(s, i - 1) ELSE i

\* the least element of a set of positions, 0 if there is none
First(S) == IF S = {} THEN 0 ELSE CHOOSE x \in S : \A y \in S : x <= y

\* str.strip()
Strip(s) ==
    LET a == SkipWS(s, 1)
        b == SkipWSBack(s, Len(s))
    IN  IF a > b THEN <<>> ELSE SubSeq(s, a, b)

----------------------------------------------------------------------------
(* Python values *)

Str(s) == [t |-> "str", s |-> s]
Bool(b) == [t |-> "bool", b |-> b]
Null == [t |-> "null"]
Arr(xs) == [t |-> "arr", xs |-> xs]
Obj(kv) == [t |-> "obj", kv |-> kv]

\* Numbers.  k is "int" or "float".  m is the magnitude class:
\*   "fin"  the exact decimal  ip + 0.fr  (ip a natural, fr the fraction's
\*          digits without trailing zeros), negated when neg;
\*   "big"  finite, of more than MaxExactDigits digits, within float range;
\*   "huge" an int beyond the range of float (float() of it overflows);
\*   "inf", "nan"  the float infinities and not-a-number.
MkNum(k, m, neg, ip, fr) ==
    [t |-> "num", k |-> k, m |-> m, neg |-> neg, ip |-> ip, fr |-> fr]

Int_(n) == MkNum("int", "fin", n < 0, IF n < 0 THEN -n ELSE n, <<>>)
Float_(n) == MkNum("float", "fin", n < 0, IF n < 0 THEN -n ELSE n, <<>>)
Inf(neg) == MkNum("float", "inf", neg, 0, <<>>)
NaN == MkNum("float", "nan", FALSE, 0, <<>>)

\* the largest number of digits of a number the model keeps exactly; a longer
\* one is only classified ("big", "huge", "inf")
MaxExactDigits == 8

IsZero(x) == x.m = "fin" /\ x.ip = 0 /\ x.fr = <<>>

\* x < 0, x > 0 as Python compares numbers (every comparison with nan is False)
NumNeg(x) == x.m # "nan" /\ x.neg /\ ~IsZero(x)
NumPos(x) == x.m # "nan" /\ ~x.neg /\ ~IsZero(x)

\* x > c and x < c for a natural c of at most MaxExactDigits digits
NumGtNat(x, c) ==
    /\ NumPos(x)
    /\ \/ x.m # "fin"
       \/ x.ip > c
       \/ x.ip = c /\ x.fr # <<>>
NumLtNat(x, c) ==
    \/ NumNeg(x)
    \/ x.m = "fin" /\ ~x.neg /\ x.ip < c
    \/ IsZero(x) /\ 0 < c

\* float.is_integer(), and True for an int
NumIsIntegral(x) == x.m \in {"fin", "big", "huge"} /\ x.fr = <<>>

----------------------------------------------------------------------------
(* Python dicts, as sequences of <<key, value>> *)

HasKey(kv, k) == \E i \in 1..Len(kv) : kv[i][1] = k

\* d[k]
Get(kv, k) == kv[CHOOSE i \in 1..Len(kv) : kv[i][1] = k][2]

\* d[k] = v : an existing key keeps its place
Put(kv, k, v) ==
    IF HasKey(kv, k)
    THEN [i \in 1..Len(kv) |-> IF kv[i][1] = k THEN <<k, v>> ELSE kv[i]]
    ELSE Append(kv, <<k, v>>)

----------------------------------------------------------------------------
(* json.loads: the strict decoder of the standard library, as parse calls  *)
(* it.  A scan returns [ok, v, i]: whether it matched, the value, and the  *)
(* index after it.                                                         *)

Fail == [ok |-> FALSE, v |-> Null, i |-> 0]
Ok(v, i) == [ok |-> TRUE, v |-> v, i |-> i]

\* the character an escape \e stands for (\b and \uXXXX are outside the
\* alphabet of the model)
EscapeHeads == {QUOTE, BSL, "/", "n", "r", "t", "f"}
Unescape(e) ==
    CASE e = "n" -> NL [] e = "r" -> CR [] e = "t" -> TAB [] e = "f" -> "\f"
      [] OTHER -> e

\* characters a strict JSON string may not hold unescaped
ControlChars == {NL, CR, TAB, "\f"}

\* the number of backslashes that end at j, counted back to i
RECURSIVE BslRun(_, _, _)
BslRun(s, j, i) == IF j >= i /\ At(s, j) = BSL THEN 1 + BslRun(s, j - 1, i) ELSE 0

\* in the string that starts at i, the character at j follows an escaping
\* backslash
Escaped(s, j, i) == BslRun(s, j - 1, i) % 2 = 1

\* py_scanstring, from the index i after the opening quote: the string
\* ends at the first quote that no backslash escapes
ScanString(s, i) ==
    LET e == First({j \in i..Len(s) : s[j] = QUOTE /\ ~Escaped(s, j, i)})
        body == {j \in i..(e - 1) : ~(s[j] = BSL /\ ~Escaped(s, j, i))}
        at == SelectSeq([k \in 1..(e - i) |-> i + k - 1], LAMBDA j : j \in body)
    IN  IF e = 0 THEN Fail
        ELSE IF \E j \in body :
                    \/ Escaped(s, j, i) /\ s[j] \notin EscapeHeads
                    \/ ~Escaped(s, j, i) /\ s[j] \in ControlChars
        THEN Fail
        ELSE Ok([k \in 1..Len(at) |->
                    IF Escaped(s, at[k], i) THEN Unescape(s[at[k]]) ELSE s[at[k]]],
                e + 1)

\* the index after the run of digits that starts at i
DigitRun(s, i) == First({j \in i..(Len(s) + 1) : At(s, j) \notin Digits})

RECURSIVE ToNat(_)
ToNat(ds) ==
    IF ds = <<>> THEN 0
    ELSE 10 * ToNat(SubSeq(ds, 1, Len(ds) - 1)) + DigitVal(ds[Len(ds)])

\* a digit string's value, saturated beyond MaxExactDigits digits
ToNatSat(ds) ==
    IF Len(ds) > MaxExactDigits THEN ToNat([k \in 1..MaxExactDigits |-> "9"])
    ELSE ToNat(ds)

\* the number of "0" at the start, at the end of a digit string
LeadingZeros(ds) == First({j \in 1..(Len(ds) + 1) : At(ds, j) # "0"}) - 1
TrailingZeros(ds) == First({n \in 0..Len(ds) : At(ds, Len(ds) - n) # "0"})

Zeros(n) == [k \in 1..n |-> "0"]

\* int(digits): an int of any size
MkInt(neg, ds) ==
    LET z == LeadingZeros(ds)
        d == SubSeq(ds, z + 1, Len(ds))
    IN  IF Len(d) <= MaxExactDigits
        THEN MkNum("int", "fin", neg /\ d # <<>>, ToNat(d), <<>>)
        ELSE IF Len(d) <= 309 THEN MkNum("int", "big", neg, Len(d), <<>>)
        ELSE MkNum("int", "huge", neg, Len(d), <<>>)

\* float of the decimal  0.ds * 10^p : exact up to MaxExactDigits integer
\* digits, infinite beyond the 309 digits of the largest float, zero below
\* the smallest one
MkFloat(neg, ds, p) ==
    LET z == LeadingZeros(ds)
        d == SubSeq(ds, z + 1, Len(ds))
        q == p - z
        ipd == IF q <= 0 THEN <<>>
               ELSE IF q <= Len(d) THEN SubSeq(d, 1, q)
               ELSE d \o Zeros(q - Len(d))
        frd == IF q <= 0 THEN Zeros(-q) \o d
               ELSE IF q <= Len(d) THEN SubSeq(d, q + 1, Len(d))
               ELSE <<>>
        fr == SubSeq(frd, 1, Len(frd) - TrailingZeros(frd))
    IN  IF d = <<>> \/ q < -323 THEN MkNum("float", "fin", neg, 0, <<>>)
        ELSE IF q > 309 THEN Inf(neg)
        ELSE IF q > MaxExactDigits THEN MkNum("float", "big", neg, q, <<>>)
        ELSE MkNum("float", "fin", neg, ToNat(ipd), fr)

\* NUMBER_RE: -?(0|[1-9]\d*)(\.\d+)?([eE][-+]?\d+)? at i.  a is the index
\* after the sign, b after the integer digits, c after the fraction, e0 and
\* e1 around the exponent's digits.
NumberValue(s, neg, ipart, fpart, c, e0, e1) ==
    IF fpart = <<>> /\ e1 = c THEN Ok(MkInt(neg, ipart), c)
    ELSE Ok(MkFloat(neg, ipart \o fpart,
                    Len(ipart) + (IF e1 = c THEN 0
                                  ELSE (IF At(s, c + 1) = "-" THEN -1 ELSE 1)
                                       * ToNatSat(SubSeq(s, e0, e1 - 1)))),
            e1)

NumberExponent(s, neg, ipart, fpart, c, e0) ==
    NumberValue(s, neg, ipart, fpart, c, e0,
                IF At(s, c) \in {"e", "E"} /\ At(s, e0) \in Digits
                THEN DigitRun(s, e0) ELSE c)

NumberFraction(s, neg, a, b, c) ==
    NumberExponent(s, neg, SubSeq(s, a, b - 1), SubSeq(s, b + 1, c - 1), c,
                   IF At(s, c + 1) \in {"+", "-"} THEN c + 2 ELSE c + 1)

NumberInteger(s, neg, a, b) ==
    IF b = a THEN Fail
    ELSE NumberFraction(s, neg, a, b,
                        IF At(s, b) = "." /\ At(s, b + 1) \in Digits
                        THEN DigitRun(s, b + 1) ELSE b)

NumberSigned(s, neg, a) ==
    NumberInteger(s, neg, a, IF At(s, a) = "0" THEN a + 1 ELSE DigitRun(s, a))

ScanNumber(s, i) ==
    NumberSigned(s, At(s, i) = "-", IF At(s, i) = "-" THEN i + 1 ELSE i)

L_true == <<"t", "r", "u", "e">>
L_false == <<"f", "a", "l", "s", "e">>
L_null == <<"n", "u", "l", "l">>
L_NaN == <<"N", "a", "N">>
L_Infinity == <<"I", "n", "f", "i", "n", "i", "t", "y">>

RECURSIVE ScanValue(_, _)
RECURSIVE ScanObject(_, _, _)
RECURSIVE ScanArray(_, _, _)

\* the string value of a scanned string r
StringValue(r) ==
    IF r.ok THEN Ok(Str(r.v), r.i) ELSE Fail

\* after "{" and whitespace, at j
ObjectOpen(s, j) ==
    IF At(s, j) = "}" THEN Ok(Obj(<<>>), j + 1) ELSE ScanObject(s, j, <<>>)

\* after "[" and whitespace, at j
ArrayOpen(s, j) ==
    IF At(s, j) = "]" THEN Ok(Arr(<<>>), j + 1) ELSE ScanArray(s, j, <<>>)

\* scan_once at i
ScanValue(s, i) ==
    CASE At(s, i) = QUOTE -> StringValue(ScanString(s, i + 1))
      [] At(s, i) = "{" -> ObjectOpen(s, SkipWS(s, i + 1))
      [] At(s, i) = "[" -> ArrayOpen(s, SkipWS(s, i + 1))
      [] At(s, i) = "n" -> IF HasPrefix(s, i, L_null) THEN Ok(Null, i + 4) ELSE Fail
      [] At(s, i) = "t" -> IF HasPrefix(s, i, L_true) THEN Ok(Bool(TRUE), i + 4) ELSE Fail
      [] At(s, i) = "f" -> IF HasPrefix(s, i, L_false) THEN Ok(Bool(FALSE), i + 5) ELSE Fail
      [] At(s, i) = "N" -> IF HasPrefix(s, i, L_NaN) THEN Ok(NaN, i + 3) ELSE Fail
      [] At(s, i) = "I" -> IF HasPrefix(s, i, L_Infinity) THEN Ok(Inf(FALSE), i + 8) ELSE Fail
      [] At(s, i) = "-" /\ HasPrefix(s, i + 1, L_Infinity) -> Ok(Inf(TRUE), i + 9)
      [] OTHER -> ScanNumber(s, i)

\* JSONObject, after a member's value and whitespace, at d
ObjectNext(s, kv, d) ==
    IF At(s, d) = "}" THEN Ok(Obj(kv), d + 1)
    ELSE IF At(s, d) = "," THEN ScanObject(s, SkipWS(s, d + 1), kv)
    ELSE Fail

\* JSONObject, with the scanned value v of the member key
ObjectValue(s, kv, key, v) ==
    IF v.ok THEN ObjectNext(s, Put(kv, key, v.v), SkipWS(s, v.i)) ELSE Fail

\* JSONObject, after a key and whitespace, at c
ObjectColon(s, kv, key, c) ==
    IF At(s, c) = ":" THEN ObjectValue(s, kv, key, ScanValue(s, SkipWS(s, c + 1)))
    ELSE Fail

\* JSONObject, with the scanned key k
ObjectKey(s, kv, k) ==
    IF k.ok THEN ObjectColon(s, kv, k.v, SkipWS(s, k.i)) ELSE Fail

\* JSONObject: i is at the quote of a key; kv holds the members read so far
ScanObject(s, i, kv) ==
    IF At(s, i) = QUOTE THEN ObjectKey(s, kv, ScanString(s, i + 1)) ELSE Fail

\* JSONArray, after an element and whitespace, at d
ArrayNext(s, xs, d) ==
    IF At(s, d) = "]" THEN Ok(Arr(xs), d + 1)
    ELSE IF At(s, d) = "," THEN ScanArray(s, SkipWS(s, d + 1), xs)
    ELSE Fail

\* JSONArray, with the scanned element v
ArrayValue(s, xs, v) ==
    IF v.ok THEN ArrayNext(s, Append(xs, v.v), SkipWS(s, v.i)) ELSE Fail

\* JSONArray: i is at an element; xs holds the elements read so far
ScanArray(s, i, xs) ==
    ArrayValue(s, xs, ScanValue(s, i))

\* the document must end after the value r
LoadsEnd(s, r) ==
    IF r.ok /\ SkipWS(s, r.i) = Len(s) + 1
    THEN [ok |-> TRUE, v |-> r.v]
    ELSE [ok |-> FALSE, v |-> Null]

\* json.loads(s): [ok, v]; ~ok stands for JSONDecodeError
Loads(s) ==
    LoadsEnd(s, ScanValue(s, SkipWS(s, 1)))

----------------------------------------------------------------------------
(* The two regular expressions of ResponseParser, by the matches the       *)
(* backtracking engine of module re returns (re.DOTALL: . matches every    *)
(* character).                                                             *)

FENCE == <<TICK, TICK, TICK>>
TAG_json == <<"j", "s", "o", "n">>

\* the first e >= i with text[e] = "}" followed by \s* and a fence, or 0:
\* where the lazy  .*?\}\s*```  ends
FenceClose(text, i) ==
    First({e \in i..Len(text) :
              text[e] = "}" /\ HasPrefix(text, SkipWS(text, e + 1), FENCE)})

\* ```(?:json)?\s*(\{.*?\})\s*``` matched at p, the brace expected at q:
\* [ok, g] with g = group 1
FenceGroup(text, p, q, e) ==
    IF HasPrefix(text, p, FENCE) /\ At(text, q) = "{" /\ e # 0
    THEN [ok |-> TRUE, g |-> SubSeq(text, q, e)]
    ELSE [ok |-> FALSE, g |-> <<>>]

FenceBrace(text, p, q) ==
    FenceGroup(text, p, q, FenceClose(text, q + 1))

FenceMatchAt(text, p) ==
    FenceBrace(text, p,
               SkipWS(text, IF HasPrefix(text, p + 3, TAG_json) THEN p + 7 ELSE p + 3))

\* re.search(r'```(?:json)?\s*(\{.*?\})\s*```', text, re.DOTALL): the match
\* at the leftmost position that has one
FenceSearch(text) ==
    FenceMatchAt(text, First({p \in 1..Len(text) :
                                 HasPrefix(text, p, FENCE) /\ FenceMatchAt(text, p).ok}))

\* the quotes followed by \s*[,}\]] : where  "(\s*[,}\]])  can match
ClosingQuotes(text) ==
    {e \in 1..Len(text) :
        text[e] = QUOTE /\ At(text, SkipWS(text, e + 1)) \in {",", "}", "]"}}

\* the colons followed by \s*" : where  :\s*"  can match
ValueColons(text) ==
    {c \in 1..Len(text) : text[c] = ":" /\ At(text, SkipWS(text, c + 1)) = QUOTE}

\* content.replace('\n', '\\n').replace('\r', '')
RECURSIVE EscapeNewlines(_)
EscapeNewlines(content) ==
    LET n == First({j \in 1..Len(content) : content[j] = NL})
    IN  IF n = 0 THEN content
        ELSE SubSeq(content, 1, n - 1) \o <<BSL, "n">>
                 \o EscapeNewlines(SubSeq(content, n + 1, Len(content)))
FixContent(content) ==
    SelectSeq(EscapeNewlines(content), LAMBDA ch : ch # CR)

\* re.sub(r'(\s*:\s*)"(.*?)"(\s*[,}\]])', fix_newlines, text, flags=re.DOTALL):
\* the text from pos on, every non-overlapping match rewritten, leftmost
\* first.  A match takes the first colon c >= pos of colons that some quote
\* of quotes closes (q is the opening quote), and the lazy group 2 ends at
\* the first such quote e; group 3 ends at d.
RECURSIVE SubNewlines(_, _, _, _)
SubTail(text, pos, colons, quotes, q, e, d) ==
    SubSeq(text, pos, q)
        \o FixContent(SubSeq(text, q + 1, e - 1))
        \o SubSeq(text, e, d)
        \o SubNewlines(text, d + 1, colons, quotes)

SubClose(text, pos, colons, quotes, q, e) ==
    SubTail(text, pos, colons, quotes, q, e, SkipWS(text, e + 1) )

SubOpen(text, pos, colons, quotes, q) ==
    SubClose(text, pos, colons, quotes, q, First({e \in quotes : e > q}))

SubMatch(text, pos, colons, quotes, c) ==
    IF c = 0 THEN SubSeq(text, pos, Len(text))
    ELSE SubOpen(text, pos, colons, quotes, SkipWS(text, c + 1))

SubNewlines(text, pos, colons, quotes) ==
    SubMatch(text, pos, colons, quotes,
             First({c \in colons :
                       c >= pos /\ \E e \in quotes : e > SkipWS(text, c + 1)}))

----------------------------------------------------------------------------
(* ResponseParser *)

\* step 1 of _preprocess_response: strip, and unwrap a leading fenced block;
\* t is the stripped text and m the fence match in it
Unwrap(t, m) ==
    IF HasPrefix(t, 1, FENCE) /\ m.ok THEN Strip(m.g) ELSE t

Stripped(t) == Unwrap(t, FenceSearch(t))

StripFence(text) == Stripped(Strip(text))

\* step 2 of _preprocess_response: the newline repair
FixNewlines(text) == SubNewlines(text, 1, ValueColons(text), ClosingQuotes(text))

PreprocessResponse(text) ==
    IF text = <<>> THEN text ELSE FixNewlines(StripFence(text))

\* a value that may be None: [some, v]
None == [some |-> FALSE, v |-> Null]
Some(v) == [some |-> TRUE, v |-> v]

\* json.loads(match.group(1)) with its JSONDecodeError caught: r is what
\* Loads gave
SomeIfOk(r) ==
    IF r.ok THEN Some(r.v) ELSE None

\* _extract_json_from_markdown, given the match m of the fence search
ExtractMatch(m) ==
    IF m.ok THEN SomeIfOk(Loads(m.g)) ELSE None

ExtractJsonFromMarkdown(text) ==
    ExtractMatch(FenceSearch(text))

\* except json.JSONDecodeError: data = self._extract_json_from_markdown(...)
LoadsOrExtract(r, processed) ==
    IF r.ok THEN Some(r.v) ELSE ExtractJsonFromMarkdown(processed)

\* JSON null decodes to Python's None
NullAsNone(d) ==
    IF d.some /\ d.v.t = "null" THEN None ELSE d

\* lines 75-78 of parse: json.loads, or else the fenced block
DecodeResponse(processed) ==
    NullAsNone(LoadsOrExtract(Loads(processed), processed))

\* the schema's keys, as characters
K_video_analysis_md == <<"v","i","d","e","o","_","a","n","a","l","y","s","i","s","_","m","d">>
K_audio_analysis_md == <<"a","u","d","i","o","_","a","n","a","l","y","s","i","s","_","m","d">>
K_summary_md == <<"s","u","m","m","a","r","y","_","m","d">>
K_key_findings == <<"k","e","y","_","f","i","n","d","i","n","g","s">>
K_timestamp_events == <<"t","i","m","e","s","t","a","m","p","_","e","v","e","n","t","s">>
K_analysis_metadata == <<"a","n","a","l","y","s","i","s","_","m","e","t","a","d","a","t","a">>
K_sequence_order == <<"s","e","q","u","e","n","c","e","_","o","r","d","e","r">>
K_category == <<"c","a","t","e","g","o","r","y">>
K_title == <<"t","i","t","l","e">>
K_content == <<"c","o","n","t","e","n","t">>
K_confidence_score == <<"c","o","n","f","i","d","e","n","c","e","_","s","c","o","r","e">>
K_related_timestamps == <<"r","e","l","a","t","e","d","_","t","i","m","e","s","t","a","m","p","s">>
K_timestamp_seconds == <<"t","i","m","e","s","t","a","m","p","_","s","e","c","o","n","d","s">>
K_event_type == <<"e","v","e","n","t","_","t","y","p","e">>
K_description == <<"d","e","s","c","r","i","p","t","i","o","n">>
K_importance_score == <<"i","m","p","o","r","t","a","n","c","e","_","s","c","o","r","e">>
K_key == <<"k","e","y">>
K_value == <<"v","a","l","u","e">>
K_data_type == <<"d","a","t","a","_","t","y","p","e">>

----------------------------------------------------------------------------
(* float() and int() of Python, as _sanitize_data calls them.  A call      *)
(* returns [exc, v]: exc is "" or the name of the exception raised.        *)

Returns(v) == [exc |-> "", v |-> v]
Raises(e) == [exc |-> e, v |-> Null]

Lower(c) ==
    CASE c = "I" -> "i" [] c = "N" -> "n" [] c = "F" -> "f" [] c = "T" -> "t"
      [] c = "Y" -> "y" [] c = "A" -> "a" [] c = "E" -> "e" [] c = "M" -> "m"
      [] OTHER -> c

\* float(str): surrounding whitespace, a sign, inf / infinity / nan in any
\* case, or a decimal numeral with optional fraction and exponent, digits
\* grouped by single underscores.  The numeral is read left to right:
\* b is the text without sign and underscores, i1 the end of the integer
\* digits, f1 the end of the fraction, e0 and e1 the exponent digits.
PyFloatValue(neg, b, ipart, fpart, hasE, e0, e1) ==
    IF \/ Len(ipart) + Len(fpart) = 0
       \/ hasE /\ e1 = e0
       \/ e1 # Len(b) + 1
    THEN Raises("ValueError")
    ELSE Returns(MkFloat(neg, ipart \o fpart,
                         Len(ipart) + (IF hasE
                                       THEN (IF At(b, e0 - 1) = "-" THEN -1 ELSE 1)
                                            * ToNatSat(SubSeq(b, e0, e1 - 1))
                                       ELSE 0)))

PyFloatExponent(neg, b, ipart, fpart, f1, e0) ==
    PyFloatValue(neg, b, ipart, fpart, At(b, f1) = "e", e0,
                 IF At(b, f1) = "e" THEN DigitRun(b, e0) ELSE f1)

PyFloatFraction(neg, b, i1, f1) ==
    PyFloatExponent(neg, b, SubSeq(b, 1, i1 - 1),
                    IF At(b, i1) = "." THEN SubSeq(b, i1 + 1, f1 - 1) ELSE <<>>,
                    f1,
                    IF At(b, f1 + 1) \in {"+", "-"} THEN f1 + 2 ELSE f1 + 1)

PyFloatInteger(neg, b, i1) ==
    PyFloatFraction(neg, b, i1, IF At(b, i1) = "." THEN DigitRun(b, i1 + 1) ELSE i1)

PyFloatNumeral(neg, b) ==
    IF b \in {<<"i","n","f">>, <<"i","n","f","i","n","i","t","y">>}
    THEN Returns(Inf(neg))
    ELSE IF b = <<"n","a","n">> THEN Returns(NaN)
    ELSE PyFloatInteger(neg, b, DigitRun(b, 1))

PyFloatUnsigned(neg, raw) ==
    IF \E i \in 1..Len(raw) :
          raw[i] = "_" /\ ~(At(raw, i - 1) \in Digits /\ At(raw, i + 1) \in Digits)
    THEN Raises("ValueError")
    ELSE PyFloatNumeral(neg, SelectSeq(raw, LAMBDA c : c # "_"))

PyFloatSigned(t, sign) ==
    PyFloatUnsigned(At(t, 1) = "-", [i \in 1..(Len(t) - sign) |-> Lower(t[i + sign])])

PyFloatStr(str) ==
    PyFloatSigned(Strip(str), IF At(Strip(str), 1) \in {"+", "-"} THEN 1 ELSE 0)

\* float(x)
PyFloat(x) ==
    CASE x.t = "num" ->
            IF x.k = "float" THEN Returns(x)
            ELSE IF x.m = "huge" THEN Raises("OverflowError")
            ELSE Returns([x EXCEPT !.k = "float"])
      [] x.t = "bool" -> Returns(Float_(IF x.b THEN 1 ELSE 0))
      [] x.t = "str" -> PyFloatStr(x.s)
      [] OTHER -> Raises("TypeError")

\* int(f) of a float f: truncation toward zero
PyInt(f) ==
    CASE f.m = "nan" -> Raises("ValueError")
      [] f.m = "inf" -> Raises("OverflowError")
      [] f.m = "big" -> Returns([f EXCEPT !.k = "int"])
      [] OTHER -> Returns(MkNum("int", "fin", f.neg /\ f.ip # 0, f.ip, <<>>))

\* max(lo, min(hi, score)) of an int score
Clamp(lo, hi, score) ==
    IF NumGtNat(score, hi) THEN Int_(hi)
    ELSE IF NumLtNat(score, lo) THEN Int_(lo)
    ELSE score

\* int(f) of the outcome f of float(x)
IntOfFloat(f) ==
    IF f.exc = "" THEN PyInt(f.v) ELSE f

\* max(lo, min(hi, score)) of the outcome n of int(float(x));
\* except (ValueError, TypeError): default
ClampOrDefault(n, lo, hi, default) ==
    IF n.exc = "" THEN Returns(Clamp(lo, hi, n.v))
    ELSE IF n.exc \in {"ValueError", "TypeError"} THEN Returns(Int_(default))
    ELSE n

\* try: score = int(float(x)); max(lo, min(hi, score))
\* except (ValueError, TypeError): default
CoerceScore(x, lo, hi, default) ==
    ClampOrDefault(IntOfFloat(PyFloat(x)), lo, hi, default)

\* max(0.0, ts) of the outcome f of float(x); except (ValueError, TypeError): 0.0
NonNegativeOrDefault(f) ==
    IF f.exc = "" THEN Returns(IF NumPos(f.v) THEN f.v ELSE Float_(0))
    ELSE IF f.exc \in {"ValueError", "TypeError"} THEN Returns(Float_(0))
    ELSE f

\* try: ts = float(x); max(0.0, ts)   except (ValueError, TypeError): 0.0
CoerceSeconds(x) ==
    NonNegativeOrDefault(PyFloat(x))

\* d[key] = r.v when the coercion r returned, the exception otherwise
Assign(kv, key, r) ==
    IF r.exc = "" THEN Returns(Obj(Put(kv, key, r.v))) ELSE r

\* if not isinstance(finding["related_timestamps"], list): ... = []
SanitizeRelated(r) ==
    IF r.exc = "" /\ HasKey(r.v.kv, K_related_timestamps)
                  /\ Get(r.v.kv, K_related_timestamps).t # "arr"
    THEN Returns(Obj(Put(r.v.kv, K_related_timestamps, Arr(<<>>))))
    ELSE r

\* if "confidence_score" in finding: ...
SanitizeConfidence(finding) ==
    IF HasKey(finding.kv, K_confidence_score)
    THEN Assign(finding.kv, K_confidence_score,
                CoerceScore(Get(finding.kv, K_confidence_score), 0, 100, 80))
    ELSE Returns(finding)

\* the body of the key_findings loop for one dict
SanitizeFinding(finding) ==
    SanitizeRelated(SanitizeConfidence(finding))

\* if "timestamp_seconds" in event: ...
SanitizeSeconds(event) ==
    IF HasKey(event.kv, K_timestamp_seconds)
    THEN Assign(event.kv, K_timestamp_seconds,
                CoerceSeconds(Get(event.kv, K_timestamp_seconds)))
    ELSE Returns(event)

\* if "importance_score" in event: ..., after the timestamp_seconds step r
SanitizeImportance(r) ==
    IF r.exc = "" /\ HasKey(r.v.kv, K_importance_score)
    THEN Assign(r.v.kv, K_importance_score,
                CoerceScore(Get(r.v.kv, K_importance_score), 1, 10, 5))
    ELSE r

\* the body of the timestamp_events loop for one dict
SanitizeEvent(event) ==
    SanitizeImportance(SanitizeSeconds(event))

\* one of the two loops: the dicts of xs from i on, each sanitized by
\* SanitizeFinding (findings) or SanitizeEvent, appended to out; r is the
\* outcome of the loop body for xs[i]
RECURSIVE SanitizeList(_, _, _, _)
SanitizeItem(xs, i, out, findings, r) ==
    IF r.exc # "" THEN r
    ELSE SanitizeList(xs, i + 1, Append(out, r.v), findings)

\* a loop without the test of line 150 (and 168): every element is kept
RECURSIVE SanitizeListKeeping(_, _, _, _)
SanitizeListKeeping(xs, i, out, findings) ==
    IF i > Len(xs) THEN Returns(Arr(out))
    ELSE IF xs[i].t # "obj" THEN SanitizeListKeeping(xs, i + 1, Append(out, xs[i]), findings)
    ELSE SanitizeItem(xs, i, out, findings,
                      IF findings THEN SanitizeFinding(xs[i]) ELSE SanitizeEvent(xs[i]))

SanitizeList(xs, i, out, findings) ==
    IF i > Len(xs) THEN Returns(Arr(out))
    ELSE IF xs[i].t # "obj" THEN SanitizeList(xs, i + 1, out, findings)
    ELSE SanitizeItem(xs, i, out, findings,
                      IF findings THEN SanitizeFinding(xs[i]) ELSE SanitizeEvent(xs[i]))

\* a sanitizer that also resets a field that is no list to the empty list,
\* the way the loop body treats related_timestamps
SanitizeFieldResetting(r, key, findings) ==
    IF r.exc = "" /\ HasKey(r.v.kv, key)
    THEN (IF Get(r.v.kv, key).t = "arr"
          THEN Assign(r.v.kv, key, SanitizeList(Get(r.v.kv, key).xs, 1, <<>>, findings))
          ELSE Returns(Obj(Put(r.v.kv, key, Arr(<<>>)))))
    ELSE r

\* if key in data and isinstance(data[key], list): the loop over data[key],
\* after the earlier steps r
SanitizeField(r, key, findings) ==
    IF r.exc = "" /\ HasKey(r.v.kv, key) /\ Get(r.v.kv, key).t = "arr"
    THEN Assign(r.v.kv, key, SanitizeList(Get(r.v.kv, key).xs, 1, <<>>, findings))
    ELSE r

\* _sanitize_data(data): [exc, v]
SanitizeData(data) ==
    IF data.t # "obj" THEN Returns(data)
    ELSE SanitizeField(SanitizeField(Returns(data), K_key_findings, TRUE),
                       K_timestamp_events, FALSE)

----------------------------------------------------------------------------
(* jsonschema.validate, for the keywords SCHEMA uses.  A schema is a       *)
(* record; an absent keyword is the empty set or the empty sequence.       *)

Schema(type, required, properties, items, minLength, minimum, maximum) ==
    [type |-> type, required |-> required, properties |-> properties,
     items |-> items, minLength |-> minLength, minimum |-> minimum,
     maximum |-> maximum]

\* {"type": type} and nothing else
TypeOnly(type) == Schema(type, <<>>, <<>>, <<>>, <<>>, <<>>, <<>>)

\* the type keyword: a bool is no number, a float with no fraction is an
\* integer
IsType(v, ty) ==
    CASE ty = "string" -> v.t = "str"
      [] ty = "null" -> v.t = "null"
      [] ty = "number" -> v.t = "num"
      [] ty = "integer" -> v.t = "num" /\ NumIsIntegral(v)
      [] ty = "array" -> v.t = "arr"
      [] ty = "object" -> v.t = "obj"

RECURSIVE Valid(_, _)
Valid(v, sch) ==
    /\ sch.type = {} \/ \E ty \in sch.type : IsType(v, ty)
    /\ v.t = "str" => \A k \in 1..Len(sch.minLength) : Len(v.s) >= sch.minLength[k]
    /\ v.t = "num" =>
          /\ \A k \in 1..Len(sch.minimum) : ~NumLtNat(v, sch.minimum[k])
          /\ \A k \in 1..Len(sch.maximum) : ~NumGtNat(v, sch.maximum[k])
    /\ v.t = "obj" =>
          /\ \A k \in 1..Len(sch.required) : HasKey(v.kv, sch.required[k])
          /\ \A k \in 1..Len(sch.properties) :
                HasKey(v.kv, sch.properties[k][1]) =>
                    Valid(Get(v.kv, sch.properties[k][1]), sch.properties[k][2])
    /\ v.t = "arr" =>
          \A k \in 1..Len(sch.items) : \A i \in 1..Len(v.xs) : Valid(v.xs[i], sch.items[k])

SummarySchema == Schema({"string"}, <<>>, <<>>, <<>>, <<10>>, <<>>, <<>>)

FindingSchema ==
    Schema({"object"},
           <<K_category, K_title, K_content, K_confidence_score>>,
           << <<K_sequence_order, Schema({"integer"}, <<>>, <<>>, <<>>, <<>>, <<0>>, <<>>)>>,
              <<K_category, TypeOnly({"string"})>>,
              <<K_title, TypeOnly({"string"})>>,
              <<K_content, TypeOnly({"string"})>>,
              <<K_confidence_score,
                Schema({"integer"}, <<>>, <<>>, <<>>, <<>>, <<0>>, <<100>>)>>,
              <<K_related_timestamps,
                Schema({"array"}, <<>>, <<>>,
                       <<Schema({"number"}, <<>>, <<>>, <<>>, <<>>, <<0>>, <<>>)>>,
                       <<>>, <<>>, <<>>)>> >>,
           <<>>, <<>>, <<>>, <<>>)

EventSchema ==
    Schema({"object"},
           <<K_timestamp_seconds, K_event_type, K_title>>,
           << <<K_timestamp_seconds,
                Schema({"number"}, <<>>, <<>>, <<>>, <<>>, <<0>>, <<>>)>>,
              <<K_event_type, TypeOnly({"string"})>>,
              <<K_title, TypeOnly({"string"})>>,
              <<K_description, TypeOnly({"string", "null"})>>,
              <<K_importance_score,
                Schema({"integer"}, <<>>, <<>>, <<>>, <<>>, <<1>>, <<10>>)>> >>,
           <<>>, <<>>, <<>>, <<>>)

MetadataSchema ==
    Schema({"object"},
           <<K_key, K_value>>,
           << <<K_key, TypeOnly({"string"})>>,
              <<K_value, TypeOnly({"string", "number", "null"})>>,
              <<K_data_type, TypeOnly({"string", "null"})>> >>,
           <<>>, <<>>, <<>>, <<>>)

ArrayOf(items) == Schema({"array"}, <<>>, <<>>, <<items>>, <<>>, <<>>, <<>>)

\* ResponseParser.SCHEMA
SCHEMA ==
    Schema({"object"},
           <<K_video_analysis_md, K_summary_md, K_key_findings, K_timestamp_events>>,
           << <<K_video_analysis_md, TypeOnly({"string"})>>,
              <<K_audio_analysis_md, TypeOnly({"string", "null"})>>,
              <<K_summary_md, SummarySchema>>,
              <<K_key_findings, ArrayOf(FindingSchema)>>,
              <<K_timestamp_events, ArrayOf(EventSchema)>>,
              <<K_analysis_metadata, ArrayOf(MetadataSchema)>> >>,
           <<>>, <<>>, <<>>, <<>>)

\* jsonschema.validate(instance=data, schema=self.schema) does not raise
Validate(data) == Valid(data, SCHEMA)

\* what one call of parse gives its caller: None, the validated object, or
\* an exception that leaves parse
ResNone == [kind |-> "none", v |-> Null, exc |-> ""]
ResValue(v) == [kind |-> "value", v |-> v, exc |-> ""]
ResRaise(exc) == [kind |-> "raise", v |-> Null, exc |-> exc]
ResPending == [kind |-> "pending", v |-> Null, exc |-> ""]

\* lines 87-94 of parse, given what _sanitize_data gave
ParseClean(clean) ==
    IF clean.exc # "" THEN ResRaise(clean.exc)
    ELSE IF Validate(clean.v) THEN ResValue(clean.v)
    ELSE ResNone

\* lines 80-94 of parse, given the decoded data
ParseData(d) ==
    IF d.some THEN ParseClean(SanitizeData(d.v)) ELSE ResNone

\* ResponseParser.parse(text), start to end
Parse(text) ==
    ParseData(DecodeResponse(PreprocessResponse(text)))

----------------------------------------------------------------------------
(* Response texts.  The text handed to parse is a JSON document written    *)
(* out in one of the styles a generative model uses: compact or indented,  *)
(* bare or inside a fenced block, string values escaped or with physical   *)
(* line breaks.  A document is a tree:                                     *)
(*   [t |-> "S", s]    a string, given by its characters                   *)
(*   [t |-> "L", s]    a literal (number, true, null, ...), written as is  *)
(*   [t |-> "A", xs]   an array                                            *)
(*   [t |-> "O", kv]   an object, a sequence of <<key, document>>          *)

DS(s) == [t |-> "S", s |-> s]
DL(s) == [t |-> "L", s |-> s]
DA(xs) == [t |-> "A", xs |-> xs]
DO(kv) == [t |-> "O", kv |-> kv]

EscapeHead(c) == CASE c = NL -> "n" [] c = CR -> "r" [] c = TAB -> "t" [] OTHER -> c

\* the inside of a JSON string literal for the characters s; with raw, line
\* breaks are written physically
RECURSIVE EscapeString(_, _)
EscapeString(s, raw) ==
    LET special == {QUOTE, BSL, TAB} \cup (IF raw THEN {} ELSE {NL, CR})
        n == First({j \in 1..Len(s) : s[j] \in special})
    IN  IF n = 0 THEN s
        ELSE SubSeq(s, 1, n - 1) \o <<BSL, EscapeHead(s[n])>>
                 \o EscapeString(SubSeq(s, n + 1, Len(s)), raw)

Indent(n) == [k \in 1..n |-> " "]

\* what precedes item i at nesting depth, and what follows the last item
ItemSep(i, pretty, depth) ==
    IF pretty THEN (IF i > 1 THEN <<",">> ELSE <<>>) \o <<NL>> \o Indent(depth)
    ELSE IF i > 1 THEN <<",", " ">> ELSE <<>>
ItemsEnd(pretty, depth) == IF pretty THEN <<NL>> \o Indent(depth - 1) ELSE <<>>

RECURSIVE Dumps(_, _, _, _)
RECURSIVE DumpItems(_, _, _, _, _)

\* json.dumps(doc), with indent=1 when pretty
Dumps(doc, pretty, raw, depth) ==
    CASE doc.t = "S" -> <<QUOTE>> \o EscapeString(doc.s, raw) \o <<QUOTE>>
      [] doc.t = "L" -> doc.s
      [] doc.t = "A" ->
            IF doc.xs = <<>> THEN <<"[", "]">>
            ELSE <<"[">> \o DumpItems(doc, 1, pretty, raw, depth + 1) \o <<"]">>
      [] doc.t = "O" ->
            IF doc.kv = <<>> THEN <<"{", "}">>
            ELSE <<"{">> \o DumpItems(doc, 1, pretty, raw, depth + 1) \o <<"}">>

DumpItems(doc, i, pretty, raw, depth) ==
    IF i > (IF doc.t = "A" THEN Len(doc.xs) ELSE Len(doc.kv))
    THEN ItemsEnd(pretty, depth)
    ELSE ItemSep(i, pretty, depth)
             \o (IF doc.t = "A" THEN Dumps(doc.xs[i], pretty, raw, depth)
                 ELSE <<QUOTE>> \o EscapeString(doc.kv[i][1], raw) \o <<QUOTE, ":", " ">>
                          \o Dumps(doc.kv[i][2], pretty, raw, depth))
             \o DumpItems(doc, i + 1, pretty, raw, depth)

\* the ways a response wraps its JSON
Fences == {"none", "json", "bare", "prose"}

\* f'```json\n{text}\n```' and its variants
Wrap(text, fence) ==
    CASE fence = "none" -> text
      [] fence = "json" -> FENCE \o TAG_json \o <<NL>> \o text \o <<NL>> \o FENCE
      [] fence = "bare" -> FENCE \o <<NL>> \o text \o <<NL>> \o FENCE
      [] fence = "prose" ->
            <<"S","u","r","e","!"," ">> \o FENCE \o TAG_json \o <<NL>> \o text \o <<NL>> \o FENCE

Styles == [pretty : BOOLEAN, raw : BOOLEAN, fence : Fences]

\* the JSON text of a document in a style, and the response that wraps it
JsonText(doc, style) == Dumps(doc, style.pretty, style.raw, 0)
ResponseText(doc, style) == Wrap(JsonText(doc, style), style.fence)

----------------------------------------------------------------------------
(* The responses the model is run on: analysis documents that vary one     *)
(* field at a time, in every style.                                        *)

S_report == <<"R","e","p","o","r","t">>
S_summary == <<"A"," ","s","u","m","m","a","r","y",".">>
S_short == <<"s","h","o","r","t">>
S_title == <<"t">>
S_content == <<"c">>
C_visual == <<"v","i","s","u","a","l">>

\* an integer literal beyond the range of float
HugeDigits == [k \in 1..310 |-> "9"]

FindingDoc(category, score) ==
    DO(<< <<K_category, DS(category)>>, <<K_title, DS(S_title)>>,
          <<K_content, DS(S_content)>>, <<K_confidence_score, score>> >>)

EventDoc(eventType, seconds, importance) ==
    DO(<< <<K_timestamp_seconds, seconds>>, <<K_event_type, DS(eventType)>>,
          <<K_title, DS(S_title)>>, <<K_importance_score, importance>> >>)

BaseFinding == FindingDoc(C_visual, DL(<<"9","0">>))
BaseEvent == EventDoc(C_visual, DL(<<"1",".","0">>), DL(<<"5">>))

AnalysisDoc(video, summary, findings, events) ==
    DO(<< <<K_video_analysis_md, DS(video)>>, <<K_summary_md, DS(summary)>>,
          <<K_key_findings, findings>>, <<K_timestamp_events, events>> >>)

\* values of video_analysis_md: prose with line breaks, quotes, braces,
\* fences and backslashes
Texts ==
    << <<"R","e","p","o","r","t">>,
       <<"l","i","n","e","1","\n","l","i","n","e","2">>,
       <<"s","a","y"," ","\"","h","i","\"",","," ","o","k">>,
       <<"a","\"",","," ","b",":">>,
       <<"c","o","d","e"," ","}",TICK,TICK,TICK>>,
       <<"a","\r","\n","b">>,
       <<"x","\"",","," ","\n","y">>,
       <<"C",":","\\">> >>

Summaries ==
    << <<"A"," ","s","u","m","m","a","r","y",".">>,
       <<"A"," ","s","u","m","m","a","r","y">>,
       <<"s","h","o","r","t">>,
       <<"A"," ","l","o","n","g","e","r"," ","s","u","m","m","a","r","y">> >>

\* values of category and event_type
Categories ==
    << <<"v","i","s","u","a","l">>,
       <<"h","i","g","h","l","i","g","h","t">>,
       <<"o","t","h","e","r">>,
       <<"a","\"",","," ","b",":">>,
       <<"x","}",TICK,TICK,TICK>> >>

\* values of confidence_score
Scores ==
    << DL(<<"9","0">>),
       DL(<<"0">>),
       DL(<<"1","0","0">>),
       DL(<<"1","0","1">>),
       DL(<<"1","5","0">>),
       DL(<<"-","1">>),
       DL(<<"8","7",".","6">>),
       DL(<<"9","0",".","0">>),
       DL(<<"-","0",".","5">>),
       DL(<<"1","e","2">>),
       DS(<<"8","7",".","6">>),
       DS(<<"a","b","c">>),
       DS(<<>>),
       DS(<<" ","4","2"," ">>),
       DS(<<"i","n","f">>),
       DS(<<"n","a","n">>),
       DS(<<"1","e","9","9","9">>),
       DL(<<"t","r","u","e">>),
       DL(<<"f","a","l","s","e">>),
       DL(<<"n","u","l","l">>),
       DA(<<>>),
       DO(<<>>),
       DL(<<"N","a","N">>),
       DL(<<"I","n","f","i","n","i","t","y">>),
       DL(<<"1","e","9","9","9">>),
       DL(<<"-","1","e","9","9","9">>),
       DL(<<"1","2","3","4","5","6","7","8","9","0","1">>),
       DL(HugeDigits) >>

\* values of importance_score
Importances ==
    << DL(<<"5">>),
       DL(<<"1">>),
       DL(<<"1","0">>),
       DL(<<"0">>),
       DL(<<"1","1">>),
       DL(<<"5","0">>),
       DL(<<"5",".","9">>),
       DL(<<"-","3">>),
       DS(<<"7">>),
       DS(<<"x">>),
       DL(<<"t","r","u","e">>),
       DL(<<"n","u","l","l">>),
       DA(<<>>),
       DL(<<"N","a","N">>),
       DL(<<"1","e","9","9","9">>),
       DS(<<"I","n","f","i","n","i","t","y">>),
       DL(HugeDigits) >>

\* values of timestamp_seconds
Seconds ==
    << DL(<<"1",".","0">>),
       DL(<<"0">>),
       DL(<<"7">>),
       DL(<<"2",".","5">>),
       DL(<<"-","1">>),
       DL(<<"-","0",".","0">>),
       DS(<<"3",".","5">>),
       DS(<<"x">>),
       DL(<<"t","r","u","e">>),
       DL(<<"n","u","l","l">>),
       DO(<<>>),
       DL(<<"N","a","N">>),
       DL(<<"I","n","f","i","n","i","t","y">>),
       DL(<<"-","I","n","f","i","n","i","t","y">>),
       DL(<<"1","e","9","9","9">>),
       DL(<<"1","2","3","4","5","6","7","8","9","0","1">>),
       DL(HugeDigits) >>

\* the document of test_schema_fix, with every optional field
FullDoc ==
    DO(<< <<K_video_analysis_md, DS(S_report)>>,
          <<K_audio_analysis_md, DL(L_null)>>,
          <<K_summary_md, DS(S_summary)>>,
          <<K_key_findings,
            DA(<< DO(<< <<K_sequence_order, DL(<<"0">>)>>,
                        <<K_category, DS(C_visual)>>,
                        <<K_title, DS(S_title)>>,
                        <<K_content, DS(S_content)>>,
                        <<K_confidence_score, DL(<<"9","0">>)>>,
                        <<K_related_timestamps, DA(<<DL(<<"1",".","0">>)>>)>> >>) >>)>>,
          <<K_timestamp_events,
            DA(<< DO(<< <<K_timestamp_seconds, DL(<<"1",".","0">>)>>,
                        <<K_event_type, DS(C_visual)>>,
                        <<K_title, DS(S_title)>>,
                        <<K_description, DS(S_content)>>,
                        <<K_importance_score, DL(<<"5">>)>> >>),
                  EventDoc(<<"t","e","c","h","n","i","c","a","l">>, DL(<<"2",".","0">>), DL(<<"8">>)) >>)>>,
          <<K_analysis_metadata,
            DA(<< DO(<< <<K_key, DS(S_title)>>, <<K_value, DS(S_content)>>,
                        <<K_data_type, DS(<<"s","t","r","i","n","g">>)>> >>) >>)>> >>)

\* documents whose structure is off: a field that is no array, elements
\* that are no objects, missing and mistyped fields
Shapes ==
    << AnalysisDoc(S_report, S_summary, DS(<<"x">>), DA(<<BaseEvent>>)),
       AnalysisDoc(S_report, S_summary, DA(<<BaseFinding>>), DS(<<"n","o","t","-","a","n","-","a","r","r","a","y">>)),
       AnalysisDoc(S_report, S_summary, DO(<<>>), DL(L_null)),
       AnalysisDoc(S_report, S_summary, DL(L_null), DA(<<>>)),
       AnalysisDoc(S_report, S_summary, DA(<<>>), DA(<<>>)),
       AnalysisDoc(S_report, S_summary,
                   DA(<<DL(<<"1">>), BaseFinding, DS(<<"s">>)>>),
                   DA(<<DL(L_null), BaseEvent, DA(<<>>)>>)),
       AnalysisDoc(S_report, S_summary,
                   DA(<<DO(<< <<K_category, DS(C_visual)>> >>)>>), DA(<<BaseEvent>>)),
       AnalysisDoc(S_report, S_summary,
                   DA(<<BaseFinding>>), DA(<<DO(<< <<K_title, DS(S_title)>> >>)>>)),
       AnalysisDoc(S_report, S_summary,
                   DA(<<DO(BaseFinding.kv \o << <<K_related_timestamps, DL(<<"3">>)>> >>)>>),
                   DA(<<BaseEvent>>)),
       AnalysisDoc(S_report, S_summary,
                   DA(<<DO(BaseFinding.kv \o << <<K_sequence_order, DL(<<"-","1">>)>> >>)>>),
                   DA(<<BaseEvent>>)),
       DO(<< <<K_summary_md, DS(S_summary)>> >>),
       DO(<< <<K_video_analysis_md, DL(<<"1">>)>>, <<K_summary_md, DS(S_summary)>>,
             <<K_key_findings, DA(<<>>)>>, <<K_timestamp_events, DA(<<>>)>> >>),
       DO(AnalysisDoc(S_report, S_summary, DA(<<BaseFinding>>), DA(<<BaseEvent>>)).kv
              \o << <<<<"t","a","g","s">>, DA(<<DS(<<"l","1","\n","l","2">>), DS(<<"b">>)>>)>> >>),
       FullDoc,
       DA(<<AnalysisDoc(S_report, S_summary, DA(<<>>), DA(<<>>))>>),
       AnalysisDoc(S_report, S_summary,
                   DA(<<DS(<<"s">>), FindingDoc(C_visual, DL(<<"9","0">>)), DL(<<"1">>),
                        FindingDoc(S_short, DL(<<"7","0">>)), DL(L_null)>>),
                   DA(<<EventDoc(S_short, DL(<<"2",".","0">>), DL(<<"7">>)), DA(<<>>),
                        DL(<<"1">>), BaseEvent>>)) >>

\* responses that are no analysis document at all
RawTexts ==
    << <<>>,
       <<"i","n","v","a","l","i","d"," ","j","s","o","n">>,
       <<"n","u","l","l">>,
       <<"[","]">>,
       <<"5">>,
       <<"\"","t","e","x","t","\"">>,
       <<"{","}">>,
       <<"{","\"","s","u","m","m","a","r","y","_","m","d","\"",":","\"","s","h","o","r","t","\"","}">>,
       <<"[","1",",","]">>,
       <<"N","a","N">> >>

Docs ==
    [i \in 1..Len(Texts) |->
          AnalysisDoc(Texts[i], S_summary, DA(<<BaseFinding>>), DA(<<BaseEvent>>))]
    \o [i \in 1..Len(Summaries) |->
          AnalysisDoc(S_report, Summaries[i], DA(<<BaseFinding>>), DA(<<BaseEvent>>))]
    \o [i \in 1..Len(Categories) |->
          AnalysisDoc(S_report, S_summary, DA(<<FindingDoc(Categories[i], DL(<<"9","0">>))>>),
                                   DA(<<BaseEvent>>))]
    \o [i \in 1..Len(Categories) |->
          AnalysisDoc(S_report, S_summary, DA(<<BaseFinding>>),
                                   DA(<<EventDoc(Categories[i], DL(<<"1",".","0">>), DL(<<"5">>))>>))]
    \o [i \in 1..Len(Scores) |->
          AnalysisDoc(S_report, S_summary, DA(<<FindingDoc(C_visual, Scores[i])>>),
                                   DA(<<BaseEvent>>))]
    \o [i \in 1..Len(Scores) |->
          AnalysisDoc(S_report, S_short, DA(<<FindingDoc(C_visual, Scores[i])>>),
                                   DA(<<BaseEvent>>))]
    \o [i \in 1..Len(Importances) |->
          AnalysisDoc(S_report, S_summary, DA(<<BaseFinding>>),
                                   DA(<<EventDoc(C_visual, DL(<<"1",".","0">>), Importances[i])>>))]
    \o [i \in 1..Len(Importances) |->
          AnalysisDoc(S_report, S_summary, DS(<<"x">>),
                                   DA(<<EventDoc(C_visual, DL(<<"1",".","0">>), Importances[i])>>))]
    \o [i \in 1..Len(Seconds) |->
          AnalysisDoc(S_report, S_summary, DA(<<BaseFinding>>),
                                   DA(<<EventDoc(C_visual, Seconds[i], DL(<<"5">>))>>))]
    \o Shapes
    \o [i \in 1..Len(RawTexts) |-> DL(RawTexts[i])]

----------------------------------------------------------------------------
(* VideoPreprocessor.validate_video (python/AiService/video_preprocessor.py) *)
(* and the calls of GeminiService (python/services/gemini_service.py).      *)
(*                                                                         *)
(* A video file is [path, exists, size].  A size in bytes is kept as       *)
(* [mib, rest]: mib * 2^20 + rest, with rest < 2^20.                       *)

Bytes(mib, rest) == [mib |-> mib, rest |-> rest]

\* a > b of two sizes
SizeGt(a, b) == a.mib > b.mib \/ (a.mib = b.mib /\ a.rest > b.rest)

SUPPORTED_FORMATS ==
    { <<".","m","p","4">>, <<".","m","p","e","g">>, <<".","m","o","v">>,
      <<".","a","v","i">>, <<".","f","l","v">>, <<".","m","p","g">>,
      <<".","w","e","b","m">>, <<".","w","m","v">>, <<".","3","g","p","p">>,
      <<".","m","k","v">> }

\* 2 * 1024 * 1024 * 1024 bytes
MAX_FILE_SIZE == Bytes(2 * 1024, 0)

\* the last index of the character c in p, 0 if there is none
RIndex(p, c) ==
    IF \E i \in 1..Len(p) : p[i] = c
    THEN CHOOSE i \in 1..Len(p) : p[i] = c /\ \A j \in (i+1)..Len(p) : p[j] # c
    ELSE 0

\* os.path.splitext(p)[1], given the last separator at sep and the last dot at
\* dot: the dot starts an extension when a character other than a dot comes
\* between them
ExtFrom(p, sep, dot) ==
    IF dot > sep /\ \E i \in (sep+1)..(dot-1) : p[i] # "."
    THEN SubSeq(p, dot, Len(p))
    ELSE <<>>

SplitExt(p) == ExtFrom(p, RIndex(p, "/"), RIndex(p, "."))

\* str.lower()
LowerStr(s) == [i \in 1..Len(s) |-> Lower(s[i])]

\* a validation that only looks for the file
ValidateExists(v) == v.exists

ValidateVideo(v) ==
    /\ v.exists
    /\ ~SizeGt(v.size, MAX_FILE_SIZE)
    /\ LowerStr(SplitExt(v.path)) \in SUPPORTED_FORMATS

\* _retry_with_backoff's max_retries, wait_for_file_active's timeout and the
\* seconds it sleeps between two polls
MAX_RETRIES == 3
DEFAULT_TIMEOUT == 300
POLL_INTERVAL == 2

\* a wait that does not grow
ConstantWait(k) == 1

\* line 163: the seconds to wait after the failed attempt k
WaitTime(k) == 2 ^ k

\* a loop that still polls at the timeout
InTimeInclusive(now, start, t) == now - start <= t

\* line 96: the condition of the polling loop
InTime(now, start, t) == now - start < t

\* the name of the file the provider made of the upload attempt k
Handle(k) == <<"f","i","l","e","s","/">> \o <<CHOOSE c \in Digits : DigitVal(c) = k>>
NoFile == <<>>

\* the states the provider reports of an uploaded file
FileStates == {"PROCESSING", "ACTIVE", "FAILED"}

\* the videos analyze_video and upload_video are called on
Paths ==
    { <<"v",".","m","p","4">>, <<"v",".","M","p","4">>, <<"a",".","b","/","v",".","m","k","v">>,
      <<"v",".","t","x","t">>, <<"a",".","m","p","4","/","v">>, <<".","m","p","4">> }

Sizes == {Bytes(1, 0), Bytes(2 * 1024, 0), Bytes(2 * 1024, 1), Bytes(3 * 1024, 0)}

Videos ==
    [path : Paths, exists : {TRUE}, size : Sizes]
    \cup [path : Paths, exists : {FALSE}, size : {Bytes(0, 0)}]

\* the texts the provider answers a generation request with
Answer(score) ==
    ResponseText(AnalysisDoc(S_report, S_summary, DA(<<FindingDoc(C_visual, score)>>),
                             DA(<<BaseEvent>>)),
                 [pretty |-> FALSE, raw |-> FALSE, fence |-> "json"])

Responses ==
    { Answer(DL(<<"9","0">>)), Answer(DS(<<"i","n","f">>)), RawTexts[2] }

\* the timeouts wait_for_file_active is called with
Timeouts == {0, 1, 5, DEFAULT_TIMEOUT}
----------------------------------------------------------------------------
(* PromptTemplateDAO.render_prompt (python/database/prompt_template_dao.py) *)
(* and PromptBuilder (python/AiService/prompt_builder.py).                 *)
(*                                                                         *)
(* A template is [category, is_default, prompt_content, variables], its    *)
(* variables a sequence of [name, default]: var_def.get("name") and        *)
(* var_def.get("default", ""), an absent name being the empty text.  A     *)
(* dict of variables is a sequence of <<name, value>> in insertion order.  *)

\* a dict that may be None: [some, v]
NoDict == [some |-> FALSE, v |-> <<>>]
Dict(kv) == [some |-> TRUE, v |-> kv]

\* the first index from i on where old occurs in s, 0 if there is none
Find(s, old, i) ==
    First({j \in i..(Len(s) - Len(old) + 1) : HasPrefix(s, j, old)})

\* str.replace(old, new), old not empty: the occurrences of old from left to
\* right, none overlapping another; j is the first one
RECURSIVE ReplaceAt(_, _, _, _)
ReplaceAt(s, old, new, j) ==
    IF j = 0
    THEN s
    ELSE SubSeq(s, 1, j - 1) \o new
         \o ReplaceAt(SubSeq(s, j + Len(old), Len(s)), old, new,
                      Find(SubSeq(s, j + Len(old), Len(s)), old, 1))

Replace(s, old, new) == ReplaceAt(s, old, new, Find(s, old, 1))

\* f"{{{key}}}"
Placeholder(key) == <<"{">> \o key \o <<"}">>

\* lines 96-99: the default of every declared name the dict lacks is stored
\* in the dict
RECURSIVE StoreDefaults(_, _, _)
StoreDefaults(variables, defs, i) ==
    IF i > Len(defs)
    THEN variables
    ELSE StoreDefaults(
            IF defs[i].name # <<>> /\ ~HasKey(variables, defs[i].name)
            THEN Append(variables, <<defs[i].name, defs[i].default>>)
            ELSE variables,
            defs, i + 1)

\* lines 100-101: one replace for each item of the dict, in its order, each
\* on what the one before it gave
RECURSIVE ReplaceItems(_, _, _)
ReplaceItems(content, variables, i) ==
    IF i > Len(variables)
    THEN content
    ELSE ReplaceItems(Replace(content, Placeholder(variables[i][1]), variables[i][2]),
                      variables, i + 1)

\* render_prompt, given the dict it works on: the rendered text and the dict
\* as the call leaves it
Rendered(template, variables) ==
    [content |-> ReplaceItems(template.prompt_content, variables, 1),
     variables |-> variables]

\* render_prompt(template, variables); lines 94-95 take a new dict for an
\* empty one
RenderPrompt(template, variables) ==
    Rendered(template, StoreDefaults(variables, template.variables, 1))

\* get_default(category): the first row of the category that is a default,
\* None if there is none
GetDefault(store, category) ==
    IF \E i \in 1..Len(store) : store[i].category = category /\ store[i].is_default = 1
    THEN Some(store[First({i \in 1..Len(store) :
                    store[i].category = category /\ store[i].is_default = 1})])
    ELSE None

\* the two class constants and the label of the task section, each kept as
\* one symbol; the separator of the sections
SYSTEM_PROMPT == <<"SYSTEM_PROMPT">>
OUTPUT_FORMAT_PROMPT == <<"OUTPUT_FORMAT_PROMPT">>
TASK_LABEL == <<"TASK:", NL>>
SEPARATOR == <<NL, NL, "-", "-", "-", NL, NL>>

\* str(n) of a natural
DigitChar(d) == CHOOSE c \in Digits : DigitVal(c) = d

RECURSIVE NatStr(_)
NatStr(n) == IF n < 10 THEN <<DigitChar(n)>> ELSE NatStr(n \div 10) \o <<DigitChar(n % 10)>>

\* f"{x:.1f}" of a duration, which the model counts in tenths of a second
Fixed1(tenths) == NatStr(tenths \div 10) \o <<".", DigitChar(tenths % 10)>>

\* q hundredths and r bytes over: rounded to the nearest hundredth, a tie to
\* the even one
RoundHalfEven(q, r, unit) ==
    IF 2 * r > unit \/ (2 * r = unit /\ q % 2 = 1) THEN q + 1 ELSE q

Hundredths(h) == NatStr(h \div 100) \o <<".", DigitChar((h \div 10) % 10), DigitChar(h % 10)>>

\* f"{size / (1024 * 1024):.2f}" of a size in bytes
MegaBytes(size) ==
    Hundredths(RoundHalfEven((size * 100) \div (1024 * 1024),
                             (size * 100) % (1024 * 1024), 1024 * 1024))

\* "\n".join(lines)
RECURSIVE JoinWith(_, _)
JoinWith(parts, sep) ==
    IF Len(parts) = 0 THEN <<>>
    ELSE IF Len(parts) = 1 THEN parts[1]
    ELSE parts[1] \o sep \o JoinWith(Tail(parts), sep)

\* _build_context_prompt: the heading, and a line for each datum given
BuildContextPrompt(ctx) ==
    JoinWith(
        << <<"INFO:">> >>
        \o (IF HasKey(ctx, "duration")
            THEN << <<"-"," ","d",":"," ">> \o Fixed1(Get(ctx, "duration")) \o <<" ","s">> >>
            ELSE <<>>)
        \o (IF HasKey(ctx, "keyframe_count")
            THEN << <<"-"," ","k",":"," ">> \o NatStr(Get(ctx, "keyframe_count")) >>
            ELSE <<>>)
        \o (IF HasKey(ctx, "file_size")
            THEN << <<"-"," ","f",":"," ">> \o MegaBytes(Get(ctx, "file_size")) \o <<" ","M","B">> >>
            ELSE <<>>)
        \o (IF HasKey(ctx, "width") /\ HasKey(ctx, "height")
            THEN << <<"-"," ","r",":"," ">> \o NatStr(Get(ctx, "width")) \o <<"x">>
                    \o NatStr(Get(ctx, "height")) >>
            ELSE <<>>),
        <<NL>>)

\* lines 100-104: the task section, none without a store or a default
\* template.  variables is custom_variables or {}
TaskParts(prompt_dao, store, category, variables) ==
    IF prompt_dao /\ GetDefault(store, category).some
    THEN << TASK_LABEL \o RenderPrompt(GetDefault(store, category).v, variables).content >>
    ELSE <<>>

\* a context section whatever the context is
ContextAlways(ctx) == <<BuildContextPrompt(ctx.v)>>

\* lines 107-109: video_context is a dict, or None
ContextParts(ctx) ==
    IF ctx.some /\ Len(ctx.v) > 0 THEN <<BuildContextPrompt(ctx.v)>> ELSE <<>>

\* custom_variables or {}
OrEmpty(d) == IF d.some THEN d.v ELSE <<>>

\* build_prompt's return value
BuildPrompt(prompt_dao, store, category, ctx, custom_variables) ==
    JoinWith(<<SYSTEM_PROMPT>>
             \o TaskParts(prompt_dao, store, category, OrEmpty(custom_variables))
             \o ContextParts(ctx)
             \o <<OUTPUT_FORMAT_PROMPT>>,
             SEPARATOR)

\* the caller's custom_variables after build_prompt: render_prompt stored the
\* defaults in the dict it was given, which is the caller's unless that one is
\* None or empty
VariablesAfter(prompt_dao, store, category, custom_variables) ==
    IF prompt_dao /\ GetDefault(store, category).some
          /\ custom_variables.some /\ Len(custom_variables.v) > 0
    THEN Dict(RenderPrompt(GetDefault(store, category).v, custom_variables.v).variables)
    ELSE custom_variables

\* the templates, the stores, and the arguments of the calls
Template(category, is_default, content, defs) ==
    [category |-> category, is_default |-> is_default,
     prompt_content |-> content, variables |-> defs]

VarDef(name, default) == [name |-> name, default |-> default]

Stores ==
    { <<>>,
      << Template("general", 0, <<"o","l","d">>, <<>>),
         Template("general", 1, <<"{","a","}"," ","{","b","}">>,
                  <<VarDef(<<"a">>, <<"1">>), VarDef(<<"b">>, <<"2">>)>>),
         Template("other", 1, <<"<","{","b","}",">">>,
                  <<VarDef(<<"b">>, <<"9">>), VarDef(<<>>, <<"x">>)>>) >> }

CustomVariables ==
    { NoDict, Dict(<<>>),
      Dict(<< <<<<"a">>, <<"x">>>> >>),
      Dict(<< <<<<"b">>, <<"y">>>> >>),
      Dict(<< <<<<"a">>, <<"x">>>>, <<<<"b">>, <<"y">>>> >>),
      Dict(<< <<<<"c">>, <<"z">>>> >>),
      Dict(<< <<<<"a">>, <<"{","b","}">>>> >>) }

Contexts ==
    { NoDict, Dict(<<>>),
      Dict(<< <<"duration", 1205>>, <<"file_size", 10 * 1024 * 1024>> >>),
      Dict(<< <<"file_size", 128 * 1024>>, <<"keyframe_count", 12>> >>),
      Dict(<< <<"width", 1920>>, <<"height", 1080>> >>),
      Dict(<< <<"width", 1920>>, <<"fps", 30>> >>) }

ScenarioCategories == {"general", "other", "sports"}

\* the number of build_prompt calls a run makes
MaxCalls == 2
----------------------------------------------------------------------------
(* The database: DatabaseManager (python/database/database_manager.py),     *)
(* the create of each DAO (python/database/*_dao.py) and                    *)
(* HistoryService.save_ai_analysis_result (python/services/                 *)
(* history_service.py).                                                     *)
(*                                                                         *)
(* A database is a record of its tables, a table the set of its rows, a    *)
(* row a record of the columns its constraints read; id is the primary     *)
(* key.  An id is a positive number: uuid4 never gives one twice.  A time  *)
(* (created_at, started_at) is a number, later times greater.  Every       *)
(* thread has its own connection, which enforces foreign keys when it was  *)
(* told to (fk).                                                           *)

\* the columns CREATE TABLE gives each table
Columns(table) ==
    CASE table = "recording" ->
            {"record_id", "original_video_path", "title", "description", "duration_seconds",
             "file_size_bytes", "thumbnail_path", "created_at", "updated_at", "tags", "metadata"}
      [] table = "keyframe_video" ->
            {"keyframe_id", "recording_id", "keyframe_video_path", "keyframe_audio_path",
             "keyframe_count", "duration_seconds", "file_size_bytes", "compression_ratio",
             "created_at", "extraction_config"}
      [] table = "ai_analysis" ->
            {"analysis_id", "keyframe_id", "prompt_id", "analysis_type", "model_name",
             "model_version", "status", "video_analysis_md", "audio_analysis_md", "summary_md",
             "started_at", "completed_at", "processing_time_ms", "error_message"}
      [] table = "timestamp_event" ->
            {"event_id", "analysis_id", "timestamp_seconds", "event_type", "title",
             "description", "thumbnail_path", "importance_score", "metadata"}
      [] table = "key_finding" ->
            {"finding_id", "analysis_id", "sequence_order", "category", "title", "content",
             "related_timestamps", "confidence_score"}
      [] table = "analysis_metadata" ->
            {"metadata_id", "analysis_id", "key", "value", "data_type"}

\* an INSERT that names the columns the table has
InsertColumnsOfTable(table) == Columns(table)

\* the columns the INSERT of the table's DAO names
InsertColumns(table) ==
    CASE table = "recording" ->
            {"record_id", "original_video_path", "title", "description", "duration_seconds",
             "file_size_bytes", "thumbnail_path", "created_at", "updated_at", "tags", "metadata"}
      [] table = "keyframe_video" ->
            {"keyframe_id", "recording_id", "keyframe_video_path", "keyframe_audio_path",
             "keyframe_count", "duration_seconds", "file_size_bytes", "compression_ratio",
             "created_at", "extraction_config"}
      [] table = "ai_analysis" ->
            {"analysis_id", "keyframe_id", "recording_id", "prompt_id", "analysis_type",
             "model_name", "model_version", "status", "video_analysis_md", "audio_analysis_md",
             "summary_md", "rendered_html", "started_at", "completed_at", "processing_time_ms",
             "error_message"}
      [] table = "timestamp_event" ->
            {"event_id", "analysis_id", "timestamp_seconds", "event_type", "title",
             "description", "thumbnail_path", "importance_score", "metadata"}
      [] table = "key_finding" ->
            {"finding_id", "analysis_id", "sequence_order", "category", "title", "content",
             "related_timestamps", "confidence_score"}
      [] table = "analysis_metadata" ->
            {"metadata_id", "analysis_id", "key", "value", "data_type"}

\* NULL, which is no row's id
NULL == 0

\* the database _initialize_database makes
EmptyDb ==
    [recording |-> {}, keyframe_video |-> {}, ai_analysis |-> {},
     timestamp_event |-> {}, key_finding |-> {}, analysis_metadata |-> {}]

Ids(rows) == {r.id : r \in rows}

\* the FOREIGN KEY clauses of the table, for a row to insert
ForeignKeysHold(db, table, row) ==
    CASE table = "recording" -> TRUE
      [] table = "keyframe_video" -> row.recording_id \in Ids(db.recording)
      [] table = "ai_analysis" ->
            row.keyframe_id = NULL \/ row.keyframe_id \in Ids(db.keyframe_video)
      [] OTHER -> row.analysis_id \in Ids(db.ai_analysis)

\* PRIMARY KEY, UNIQUE and CHECK of the table, for a row to insert
ConstraintsHold(db, table, row) ==
    /\ row.id \notin Ids(db[table])
    /\ CASE table = "recording" ->
               \A r \in db.recording : r.original_video_path # row.original_video_path
         [] table = "keyframe_video" ->
               \A r \in db.keyframe_video : r.keyframe_video_path # row.keyframe_video_path
         [] table = "ai_analysis" -> TRUE
         [] table = "timestamp_event" ->
               /\ row.timestamp_seconds >= 0
               /\ row.importance_score \in 1..10
         [] table = "key_finding" ->
               row.confidence_score \in 0..100
         [] table = "analysis_metadata" ->
               \A r \in db.analysis_metadata :
                     ~(r.analysis_id = row.analysis_id /\ r.key = row.key)

\* whether the table takes the row, on a connection that enforces foreign
\* keys (fk) or does not
Accepts(fk, db, table, row) ==
    /\ ConstraintsHold(db, table, row)
    /\ fk => ForeignKeysHold(db, table, row)

\* execute_update of a DAO's INSERT: the database after it, and the
\* exception get_cursor raised again after its rollback
ExecuteInsert(fk, db, table, row) ==
    IF ~(InsertColumns(table) \subseteq Columns(table))
    THEN [db |-> db, exc |-> "OperationalError"]
    ELSE IF ~Accepts(fk, db, table, row)
    THEN [db |-> db, exc |-> "IntegrityError"]
    ELSE [db |-> [db EXCEPT ![table] = @ \cup {row}], exc |-> ""]

\* DELETE FROM recording WHERE record_id = ?, without ON DELETE CASCADE
DeleteRecordingOnly(db, record_id) ==
    [db EXCEPT !.recording = {r \in @ : r.id # record_id}]

\* the rows that go with their parents: the keyframe videos of the recordings
\* that are gone, the analyses of the keyframe videos that are gone, the
\* events, findings and metadata of the analyses that are gone
CascadeChildren(db) ==
    [db EXCEPT !.timestamp_event = {r \in @ : r.analysis_id \in Ids(db.ai_analysis)},
               !.key_finding = {r \in @ : r.analysis_id \in Ids(db.ai_analysis)},
               !.analysis_metadata = {r \in @ : r.analysis_id \in Ids(db.ai_analysis)}]

CascadeAnalyses(db) ==
    CascadeChildren(
      [db EXCEPT !.ai_analysis =
          {r \in @ : r.keyframe_id = NULL \/ r.keyframe_id \in Ids(db.keyframe_video)}])

CascadeKeyframes(db) ==
    CascadeAnalyses(
      [db EXCEPT !.keyframe_video = {r \in @ : r.recording_id \in Ids(db.recording)}])

\* DELETE FROM recording WHERE record_id = ? with the ON DELETE CASCADE of
\* keyframe_video, ai_analysis, timestamp_event, key_finding, analysis_metadata
DeleteCascade(db, record_id) ==
    CascadeKeyframes(DeleteRecordingOnly(db, record_id))

\* RecordingDAO.delete on a connection: the database after it
ExecuteDelete(fk, db, record_id) ==
    IF fk THEN DeleteCascade(db, record_id) ELSE DeleteRecordingOnly(db, record_id)

\* the rows the DAOs insert
RecordingRow(id, path) == [id |-> id, original_video_path |-> path]
KeyFrameRow(id, recording_id, path, created_at) ==
    [id |-> id, recording_id |-> recording_id, keyframe_video_path |-> path,
     created_at |-> created_at]
AnalysisRow(id, keyframe_id, status, started_at, completed_at) ==
    [id |-> id, keyframe_id |-> keyframe_id, status |-> status,
     started_at |-> started_at, completed_at |-> completed_at]
EventRow(id, analysis_id, e) ==
    [id |-> id, analysis_id |-> analysis_id, timestamp_seconds |-> e.timestamp_seconds,
     importance_score |-> e.importance_score]
FindingRow(id, analysis_id, f) ==
    [id |-> id, analysis_id |-> analysis_id, confidence_score |-> f.confidence_score]
MetadataRow(id, analysis_id, m) ==
    [id |-> id, analysis_id |-> analysis_id, key |-> m.key]

\* SELECT ... WHERE recording_id = ? ORDER BY created_at ASC, first row: the
\* ids that may come first
OldestKeyframes(db, recording_id) ==
    {k.id : k \in {k \in db.keyframe_video :
                      /\ k.recording_id = recording_id
                      /\ \A j \in db.keyframe_video :
                            j.recording_id = recording_id => j.created_at >= k.created_at}}

\* KeyFrameVideoDAO.get_by_recording_id, first row: ORDER BY created_at DESC
\* puts a keyframe video of the recording with the greatest created_at first
\* (any of them when several have it); the ids that may come first
FirstKeyframes(db, recording_id) ==
    {k.id : k \in {k \in db.keyframe_video :
                      /\ k.recording_id = recording_id
                      /\ \A j \in db.keyframe_video :
                            j.recording_id = recording_id => j.created_at <= k.created_at}}

\* keyframes[0].keyframe_id if keyframes else None: the values it may have
FirstKeyframe(db, recording_id) ==
    IF FirstKeyframes(db, recording_id) = {} THEN {NULL}
    ELSE FirstKeyframes(db, recording_id)

\* a loop of creates, each committed by itself: r is the database and the
\* exception so far; the first exception ends the loop
RECURSIVE InsertEach(_, _, _, _, _)
InsertEach(fk, r, table, rows, i) ==
    IF r.exc # "" \/ i > Len(rows)
    THEN r
    ELSE InsertEach(fk, ExecuteInsert(fk, r.db, table, rows[i]), table, rows, i + 1)

\* save_ai_analysis_result, lines 487-541: the ids from id0 on are the uuids
\* it draws, keyframe_id the keyframe video it found, now the time it read.
\* The database after the inserts, and the exception that ended them
SaveRows(fk, db, keyframe_id, result, id0, now) ==
    InsertEach(fk,
      InsertEach(fk,
        InsertEach(fk,
          ExecuteInsert(fk, db, "ai_analysis",
                        AnalysisRow(id0, keyframe_id, "completed", now, now)),
          "timestamp_event",
          [i \in 1..Len(result.timestamp_events) |->
                EventRow(id0 + i, id0, result.timestamp_events[i])], 1),
        "key_finding",
        [i \in 1..Len(result.key_findings) |->
              FindingRow(id0 + Len(result.timestamp_events) + i, id0, result.key_findings[i])], 1),
      "analysis_metadata",
      [i \in 1..Len(result.analysis_metadata) |->
            MetadataRow(id0 + Len(result.timestamp_events) + Len(result.key_findings) + i,
                        id0, result.analysis_metadata[i])], 1)

\* the uuids save_ai_analysis_result draws for a result: the analysis, its
\* events, findings and metadata, and the record of add_analysis
IdsDrawn(result) ==
    2 + Len(result.timestamp_events) + Len(result.key_findings) + Len(result.analysis_metadata)

\* a record that is put into _analyses whatever the inserts did
AddAnalysisFirst(r, analyses, record_id, recording_id) ==
    analyses \cup {[id |-> record_id, recording_id |-> recording_id]}

\* add_analysis, lines 451-464, as save_ai_analysis_result reaches it: after
\* the inserts r, and only when none of them raised
AddAnalysis(r, analyses, record_id, recording_id) ==
    IF r.exc = "" THEN analyses \cup {[id |-> record_id, recording_id |-> recording_id]}
    ELSE analyses

\* ORDER BY started_at DESC, first row: the analyses that may come first
LatestOf(rows) ==
    {a.id : a \in {a \in rows : \A b \in rows : b.started_at <= a.started_at}}

\* get_analysis_details, lines 688-706: the analysis it reports, NULL for
\* none.  The latest analysis of the first keyframe video, or else the
\* latest analysis without a keyframe video
AnalysisByKeyframe(db, keyframe_id) ==
    LatestOf({a \in db.ai_analysis : keyframe_id # NULL /\ a.keyframe_id = keyframe_id})

AnalysisWithoutKeyframe(db) ==
    LatestOf({a \in db.ai_analysis : a.keyframe_id = NULL})

OrNull(ids) == IF ids = {} THEN {NULL} ELSE ids

AnalysisOf(db, keyframe_id) ==
    IF AnalysisByKeyframe(db, keyframe_id) # {}
    THEN AnalysisByKeyframe(db, keyframe_id)
    ELSE OrNull(AnalysisWithoutKeyframe(db))

\* get_analysis_details, lines 662-672: no recording, no report
GetAnalysisDetails(db, recording_id, keyframe_id) ==
    IF recording_id \notin Ids(db.recording) THEN {NULL}
    ELSE AnalysisOf(db, keyframe_id)

\* the connection of a thread that has none yet, without the PRAGMA
GetConnectionNoPragma(conns, t) ==
    IF conns[t].open THEN conns
    ELSE [conns EXCEPT ![t] = [open |-> TRUE, foreign_keys |-> FALSE]]

\* _get_connection, lines 38-45: the thread's connection, made with
\* PRAGMA foreign_keys = ON when the thread has none
GetConnection(conns, t) ==
    IF conns[t].open THEN conns
    ELSE [conns EXCEPT ![t] = [open |-> TRUE, foreign_keys |-> TRUE]]

\* the threads: the one that made the DatabaseManager, and a worker
Threads == {"main", "worker"}

Closed == [open |-> FALSE, foreign_keys |-> FALSE]

\* after DatabaseManager.__init__ on the main thread
Connections0 == [t \in Threads |-> IF t = "main" THEN [open |-> TRUE, foreign_keys |-> TRUE]
                                   ELSE Closed]

\* the paths of the videos, the times, the events and findings, and the
\* parsed results the database is given
VideoPaths == {"/test/chain.mp4", "/test/kf.mp4"}

CreatedAts == {1, 2}

Events == {[timestamp_seconds |-> s, importance_score |-> i] : s \in {0, 10}, i \in {5, 10}}
Findings == {[confidence_score |-> c] : c \in {80, 100}}
Metadata == {[key |-> "content_type"]}

\* a result with nothing in its arrays
Results0 == [timestamp_events |-> <<>>, key_findings |-> <<>>, analysis_metadata |-> <<>>]

Results ==
    { Results0,
      [timestamp_events |-> <<[timestamp_seconds |-> 10, importance_score |-> 5]>>,
       key_findings |-> <<[confidence_score |-> 80]>>,
       analysis_metadata |-> <<[key |-> "content_type"], [key |-> "content_type"]>>] }

\* the number of calls a run makes
MaxOps == 4
----------------------------------------------------------------------------
(* HistoryViewModel (python/viewmodels/history_viewmodel.py): the slots    *)
(* run on the main thread, AIAnalysisWorker and MarkdownWorker on threads  *)
(* of their own; a worker emits one signal, which is delivered to its slot *)
(* on the main thread, in the order of emission.  A worker is a record of  *)
(* its number, its kind and its record id.                                 *)

Worker(wid, kind, id) == [wid |-> wid, kind |-> kind, id |-> id]

\* a guard that lets every start through
NeverProcessing(record_id, ids) == FALSE

\* line 514 (and 439): record_id in self._processing_ids
IsProcessing(record_id, ids) == record_id \in ids

\* preloadAnalysisContent, lines 443-451: whether raw_md is found, in the
\* analysis get_analysis_details reports or in a legacy record
HasMarkdown(d, records, id) ==
    \/ \E keyframe_id \in FirstKeyframe(d, id) : GetAnalysisDetails(d, id, keyframe_id) # {NULL}
    \/ \E a \in records : a.recording_id = id

\* a signal of the view model, with the record id it carries (0 for none)
Signal(name, id) == [name |-> name, id |-> id]

\* the workers that were started and whose signal no slot has handled yet
InFlight(run, queue) == run \cup {queue[i].worker : i \in DOMAIN queue}

\* the record ids the slots are called with, the legacy records analyses.json
\* may hold when the service loads it, and the number of calls a run makes
RecordIds == {1, 2}
LegacyRecords == {[id |-> 100 + r, recording_id |-> r] : r \in RecordIds}
MaxStarts == 3
----------------------------------------------------------------------------
(* AnalyzerService (python/services/analyzer_service.py): the session of   *)
(* the key-frame analyzer and its realtime flag.  A uuid is the number of  *)
(* its draw, the empty recording id is 0, and the list keyframe_results is *)
(* its length.                                                             *)

\* what a call of the native API gives: a true result, a false one, an exception
ApiOutcomes == {"true", "false", "raise"}

\* recording_id's default, the empty string
NoRecordingId == 0

\* _current_session = None
NoSession == [session_id |-> 0, recording_id |-> NoRecordingId, keyframe_results |-> 0]

\* AnalysisSession(session_id=str(uuid.uuid4()), recording_id=recording_id, ...)
AnalysisSession(session_id, recording_id) ==
    [session_id |-> session_id, recording_id |-> recording_id, keyframe_results |-> 0]

\* the service after __init__
NewAnalyzer == [api |-> FALSE, current_session |-> NoSession, realtime_running |-> FALSE]

\* what a method gives: the service after it and the value returned
Gives(a, ret) == [service |-> a, ret |-> ret]

\* lines 287-309 and 331-353: the session is created, then the API is asked to start
StartSession(a, session, outcome) ==
    IF outcome = "true" THEN Gives([a EXCEPT !.current_session = session], TRUE)
    ELSE Gives([a EXCEPT !.current_session = NoSession], FALSE)

\* start_analysis and start_file_analysis: refused while a session is current
StartAnalysisOf(a, session, outcome) ==
    IF a.current_session # NoSession THEN Gives(a, FALSE)
    ELSE IF ~a.api THEN Gives(a, FALSE)
    ELSE StartSession(a, session, outcome)

\* stop_analysis: the session is cleared unless the API raised
StopAnalysisOf(a, outcome) ==
    IF a.current_session = NoSession THEN Gives(a, FALSE)
    ELSE IF ~a.api THEN Gives(a, FALSE)
    ELSE IF outcome = "raise" THEN Gives(a, FALSE)
    ELSE Gives([a EXCEPT !.current_session = NoSession], TRUE)

\* start_realtime_analysis: the guard is the realtime flag, not the session
StartRealtimeAnalysisOf(a, session, outcome) ==
    IF a.realtime_running THEN Gives(a, TRUE)
    ELSE IF ~a.api THEN Gives(a, FALSE)
    ELSE IF outcome = "true"
         THEN Gives([a EXCEPT !.current_session = session, !.realtime_running = TRUE], TRUE)
    ELSE Gives([a EXCEPT !.current_session = NoSession], FALSE)

\* stop_realtime_analysis (it returns nothing: ret is FALSE throughout)
StopRealtimeAnalysisOf(a, outcome) ==
    IF ~a.realtime_running THEN Gives(a, FALSE)
    ELSE IF ~a.api THEN Gives(a, FALSE)
    ELSE IF outcome = "raise" THEN Gives(a, FALSE)
    ELSE Gives([a EXCEPT !.realtime_running = FALSE, !.current_session = NoSession], FALSE)

\* shutdown: stop_analysis(), then the API and the session are dropped
ShutdownOf(a, outcome) ==
    Gives([StopAnalysisOf(a, outcome).service EXCEPT !.api = FALSE, !.current_session = NoSession],
          FALSE)

\* on_keyframe, line 199: the result joins the current session, if there is one
OnKeyframeOf(a) ==
    IF a.current_session # NoSession
    THEN [a EXCEPT !.current_session.keyframe_results = @ + 1]
    ELSE a

is_realtime_mode(a) == a.realtime_running

is_running(a) == a.current_session # NoSession

\* the calls of the service one run makes
MaxAnalyzerCalls == 5

\* the key frames one session collects
MaxKeyframes == 2

----------------------------------------------------------------------------
(* RecorderService (python/services/recorder_service.py) and the part of   *)
(* HistoryService (python/services/history_service.py) it drives.          *)

\* RecorderService._current_session = None
NoRecording == [session_id |-> 0]

\* RecordingSession(output_path): its session_id is a fresh uuid
RecordingSession(session_id) == [session_id |-> session_id]

\* the service after __init__; _pending_mode = None is ""
NewRecorder == [api |-> FALSE, current_session |-> NoRecording, pending_mode |-> ""]

\* the history service after __init__ with no file of recordings
NewHistory == [db |-> EmptyDb, recordings |-> {}]

\* RecorderMode
RecorderModes == {"VIDEO", "SNAPSHOT"}

\* the threads that call the recorder
Callers == {1, 2}

\* a service without its lock: a thread enters whoever is inside
AlwaysFree(lock) == TRUE

\* with self._lock: the lock is taken when no thread holds it
LockFree(lock) == lock = 0

\* HistoryService.start_recording: the row is created before the recorder
\* starts; an exception of the DAO is logged and swallowed
HistoryStartRecording(h, record_id) ==
    [h EXCEPT !.db = ExecuteInsert(TRUE, h.db, "recording", RecordingRow(record_id, "out.mp4")).db]

\* HistoryService.update_recording: the row is read back, updated and
\* copied into _recordings; False when there is no such row
HistoryUpdateRecording(h, record_id) ==
    IF record_id \in Ids(h.db.recording)
    THEN [h EXCEPT !.recordings = @ \cup {record_id}]
    ELSE h

\* HistoryService.delete_recording: the record leaves _recordings, and the
\* database is not touched
HistoryDeleteRecording(h, record_id) ==
    IF record_id \notin h.recordings THEN Gives(h, FALSE)
    ELSE Gives([h EXCEPT !.recordings = @ \ {record_id}], TRUE)

\* line 259: the record id start_recording hands to the analyzer
RecordIdOf(session) == IF session # NoRecording THEN session.session_id ELSE NoRecordingId

\* the calls of the recorder and of the history service one run makes
MaxRecorderCalls == 5

----------------------------------------------------------------------------
(* PromptTemplateDAO (python/database/prompt_template_dao.py) over the     *)
(* table prompt_template: a row is its prompt_id, category and is_default. *)

PromptTemplate(prompt_id, category, is_default) ==
    [prompt_id |-> prompt_id, category |-> category, is_default |-> is_default]

PromptIds == {1, 2}

TemplateCategories == {"general", "meeting"}

\* the table's constraints: PRIMARY KEY (prompt_id), CHECK (is_default IN (0, 1))
TemplateAccepted(rows, row) ==
    /\ row.prompt_id \notin {r.prompt_id : r \in rows}
    /\ row.is_default \in {0, 1}

\* create: INSERT of the template as it is given
TemplateCreateOf(rows, row) ==
    IF TemplateAccepted(rows, row) THEN rows \cup {row} ELSE rows

\* UPDATE prompt_template SET category = ?, is_default = ? WHERE prompt_id = ?
UpdateRow(rows, row) ==
    {IF r.prompt_id = row.prompt_id THEN row ELSE r : r \in rows}

\* update: True when a row was changed
TemplateUpdateOf(rows, row) ==
    Gives(UpdateRow(rows, row), row.prompt_id \in {r.prompt_id : r \in rows})

\* delete
TemplateDeleteOf(rows, prompt_id) ==
    Gives({r \in rows : r.prompt_id # prompt_id}, prompt_id \in {r.prompt_id : r \in rows})

\* line 89: UPDATE prompt_template SET is_default = 0 WHERE category = ?
ClearDefaults(rows, category) ==
    {IF r.category = category THEN [r EXCEPT !.is_default = 0] ELSE r : r \in rows}

\* line 90: UPDATE prompt_template SET is_default = 1 WHERE prompt_id = ?
MarkDefault(rows, prompt_id) ==
    {IF r.prompt_id = prompt_id THEN [r EXCEPT !.is_default = 1] ELSE r : r \in rows}

\* set_as_default: the two updates, each committed; True when the second
\* changed a row
SetAsDefaultOf(rows, prompt_id, category) ==
    Gives(MarkDefault(ClearDefaults(rows, category), prompt_id),
          prompt_id \in {r.prompt_id : r \in rows})

\* get_default: the rows WHERE category = ? AND is_default = 1, of which
\* LIMIT 1 gives one
DefaultTemplates(rows, category) ==
    {r \in rows : r.category = category /\ r.is_default = 1}

\* the calls of the DAO one run makes
MaxTemplateCalls == 4

----------------------------------------------------------------------------
(* DatabaseManager.__new__ and __init__ (python/database/                  *)
(* database_manager.py, lines 16-36): the singleton and its one-time       *)
(* initialization.  An instance is the number of its creation.             *)

\* the class before any construction: _instance = None; the instance's
\* attributes, with the times db_path was assigned and the schema was made
NoManager ==
    [instance |-> 0, created |-> 0, db_path |-> "", initialized |-> FALSE,
     assigned |-> 0, schemas |-> 0]

\* the threads that construct a DatabaseManager
Constructors == {1, 2}

\* the paths they pass
DbPaths == {"a.db", "b.db"}

\* line 23: cls._instance = super().__new__(cls), when there is none yet
NewInstance(m) ==
    IF m.instance = 0
    THEN [m EXCEPT !.instance = m.created + 1, !.created = @ + 1]
    ELSE m

\* line 30: self.db_path = Path(db_path)
AssignPath(m, db_path) == [m EXCEPT !.db_path = db_path, !.assigned = @ + 1]

\* line 34: self._initialize_database()
InitializeDatabase(m) == [m EXCEPT !.schemas = @ + 1]

\* the constructions one run makes
MaxConstructions == 3


----------------------------------------------------------------------------
(* One call of ResponseParser.parse, step by step *)

VARIABLES
    doc,             \* the document the response was written from
    style,           \* and the style it was written in
    response_text,   \* parse's argument
    pc,              \* where the call is
    processed_text,  \* parse's processed_text
    decoded,         \* what decoding gave (parse's data before _sanitize_data)
    data,            \* parse's data
    result           \* what the call gave its caller

\* GeminiService
VARIABLES
    call,            \* the method that was called
    video,           \* the file at video_path
    timeout,         \* wait_for_file_active's timeout
    g_pc,            \* where the call is
    attempt,         \* _retry_with_backoff's attempt
    uploads,         \* the upload requests sent so far
    sleeps,          \* the seconds slept between the attempts, in order
    file_name,       \* the name of the uploaded file
    clock,           \* what time.time() returns
    start_time,      \* wait_for_file_active's start_time
    polls,           \* the polls of the file's state sent so far
    last_poll,       \* the time of the last of them, -1 before the first
    state,           \* the state the last poll reported
    gets,            \* the requests for the file object (line 129) sent so far
    generations,     \* the generation requests sent so far
    response,        \* the text of the provider's answer
    g_result         \* what the call gave its caller

parser_vars == <<doc, style, response_text, pc, processed_text, decoded, data, result>>

gemini_vars ==
    <<call, video, timeout, g_pc, attempt, uploads, sleeps, file_name, clock,
      start_time, polls, last_poll, state, gets, generations, response, g_result>>

\* PromptBuilder
VARIABLES
    prompt_dao,         \* whether the builder has a template store
    store,              \* the rows of prompt_template, in rowid order
    custom_variables,   \* the caller's dict of variables, or None
    variables0,         \* what that dict held when the caller made it
    passed,             \* what it held when the last call was made
    scenario_category,  \* the last call's category
    video_context,      \* the last call's context
    calls,              \* the calls made so far
    prompt              \* what the last call returned

\* the database
VARIABLES
    db,                 \* the tables
    db0,                \* the tables before the last call
    next_id,            \* the next id uuid4 gives
    ops,                \* the calls made so far
    op,                 \* the last call
    op_ref,             \* the id of the row its argument refers to
    op_path,            \* the path of the video its argument names
    op_result,          \* the result save_ai_analysis_result was given
    d_ret,              \* the id the last create returned
    d_exc,              \* the exception it raised
    saved,              \* what save_ai_analysis_result returned
    conns,              \* the connection of each thread
    op_thread,          \* the thread of the last call
    op_row,             \* the ai_analysis row the last save handed to create
    analyses,           \* the legacy analysis records in memory
    analyses0,          \* the legacy analysis records before the last call
    save_log,           \* the analysis id and recording of every save made
    deleted,            \* what RecordingDAO.delete returned
    details             \* the analysis get_analysis_details reported

\* HistoryViewModel and its worker threads
VARIABLES
    gemini_service,     \* whether the view model was given a GeminiService
    processing_ids,     \* _processing_ids
    html_cache,         \* the record ids _html_cache has
    ai_worker,          \* _ai_worker: the worker it refers to, 0 for None
    worker,             \* _worker: the worker it refers to, 0 for None
    running,            \* the workers whose run has not emitted yet
    events,             \* the signals emitted and not yet delivered, in order
    started,            \* the workers started so far
    vm_calls,           \* the calls of the slots the user interface made so far
    vm_op,              \* the last step
    vm_id,              \* its record id
    vm0,                \* the view model before it
    emitted             \* the signals of the view model the step emitted

prompt_vars ==
    <<prompt_dao, store, custom_variables, variables0, passed, scenario_category,
      video_context, calls, prompt>>

db_vars ==
    <<db, db0, next_id, ops, op, op_ref, op_path, op_result, d_ret, d_exc, saved,
      conns, op_thread, op_row, analyses, analyses0, save_log, deleted, details>>

vm_vars ==
    <<gemini_service, processing_ids, html_cache, ai_worker, worker, running, events,
      started, vm_calls, vm_op, vm_id, vm0, emitted>>

\* AnalyzerService
VARIABLES
    analyzer,           \* the service: _api, _current_session, _realtime_running
    analyzer0,          \* the service before the last call
    uuids,              \* the uuids drawn so far
    a_calls,            \* the calls made so far
    a_op,               \* the last call
    a_ret               \* and what it returned

an_vars == <<analyzer, analyzer0, uuids, a_calls, a_op, a_ret>>

\* RecorderService, with the HistoryService and the AnalyzerService attached to it
VARIABLES
    recorder,           \* the service: _api, _current_session, _pending_mode
    history,            \* the history service: its database and its _recordings
    r_lock,             \* the thread that holds the recorder's _lock, 0 when free
    r_pc,               \* where each thread's call is
    r_call,             \* the method each thread called last
    r_ret,              \* what it returned, "" while it runs
    live_starts,        \* the start_recording calls that succeeded since the last stop that did
    r_calls,            \* the calls made so far
    r_step,             \* the last step
    r_thread,           \* the thread that took it
    r_arg,              \* the record id it was about
    recorder0,          \* the service before it
    history0            \* the history service before it

rec_vars ==
    <<recorder, history, r_lock, r_pc, r_call, r_ret, live_starts, r_calls,
      r_step, r_thread, r_arg, recorder0, history0>>

\* PromptTemplateDAO
VARIABLES
    templates,          \* the rows of the table prompt_template
    templates0,         \* the rows before the last call
    t_calls,            \* the calls made so far
    t_op,               \* the last call
    t_ret               \* and what it returned

tpl_vars == <<templates, templates0, t_calls, t_op, t_ret>>

\* DatabaseManager, the singleton
VARIABLES
    manager,            \* the class and its instance: _instance, db_path, _initialized
    m_lock,             \* the thread that holds DatabaseManager._lock, 0 when free
    m_pc,               \* where each thread's construction is
    m_path,             \* the db_path each thread passed
    m_got,              \* the instance each thread's last construction gave it
    m_first,            \* the db_path the instance was given first
    m_calls             \* the constructions made so far

dm_vars == <<manager, m_lock, m_pc, m_path, m_got, m_first, m_calls>>

more_vars == <<an_vars, rec_vars, tpl_vars, dm_vars>>

vars == <<parser_vars, gemini_vars, prompt_vars, db_vars, vm_vars, more_vars>>

ParserIdle ==
    /\ doc = Null /\ style = Null /\ response_text = <<>> /\ pc = "idle"
    /\ processed_text = <<>> /\ decoded = None /\ data = None /\ result = ResPending

GeminiIdle ==
    /\ call = "" /\ video = Null /\ timeout = 0 /\ g_pc = "idle"
    /\ attempt = 0 /\ uploads = 0 /\ sleeps = <<>> /\ file_name = NoFile
    /\ clock = 0 /\ start_time = 0 /\ polls = 0 /\ last_poll = -1
    /\ state = "" /\ gets = 0 /\ generations = 0 /\ response = <<>>
    /\ g_result = ResPending

PromptIdle ==
    /\ prompt_dao = FALSE /\ store = <<>> /\ custom_variables = NoDict
    /\ variables0 = NoDict /\ passed = NoDict /\ scenario_category = ""
    /\ video_context = NoDict /\ calls = 0 /\ prompt = <<>>

DbIdle ==
    /\ db = EmptyDb /\ db0 = EmptyDb /\ next_id = 1 /\ ops = 0
    /\ op = "" /\ op_ref = NULL /\ op_path = "" /\ op_result = Results0
    /\ d_ret = NULL /\ d_exc = "" /\ saved = FALSE
    /\ conns = [t \in {"main", "worker"} |-> [open |-> t = "main", foreign_keys |-> t = "main"]]
    /\ op_thread = "main" /\ op_row = [id |-> 0, keyframe_id |-> 0, status |-> "",
                                       started_at |-> 0, completed_at |-> 0]
    /\ analyses = {} /\ analyses0 = {} /\ save_log = {}
    /\ deleted = FALSE /\ details = 0

VmIdle ==
    /\ gemini_service = FALSE /\ processing_ids = {} /\ html_cache = {}
    /\ ai_worker = 0 /\ worker = 0 /\ running = {} /\ events = <<>>
    /\ started = 0 /\ vm_calls = 0 /\ vm_op = "" /\ vm_id = 0
    /\ vm0 = [processing_ids |-> {}, html_cache |-> {}, ai_worker |-> 0, worker |-> 0,
              running |-> {}, events |-> <<>>]
    /\ emitted = {}

AnalyzerIdle ==
    /\ analyzer = NewAnalyzer /\ analyzer0 = NewAnalyzer
    /\ uuids = 0 /\ a_calls = 0 /\ a_op = "" /\ a_ret = FALSE

RecorderIdle ==
    /\ recorder = NewRecorder /\ recorder0 = NewRecorder
    /\ history = NewHistory /\ history0 = NewHistory
    /\ r_lock = 0
    /\ r_pc = [t \in Callers |-> "idle"]
    /\ r_call = [t \in Callers |-> ""]
    /\ r_ret = [t \in Callers |-> ""]
    /\ live_starts = 0 /\ r_calls = 0
    /\ r_step = "" /\ r_thread = 0 /\ r_arg = 0

TemplateIdle ==
    /\ templates = {} /\ templates0 = {}
    /\ t_calls = 0 /\ t_op = "" /\ t_ret = FALSE

ManagerIdle ==
    /\ manager = NoManager
    /\ m_lock = 0
    /\ m_pc = [t \in Constructors |-> "idle"]
    /\ m_path = [t \in Constructors |-> ""]
    /\ m_got = [t \in Constructors |-> 0]
    /\ m_first = "" /\ m_calls = 0

MoreIdle == AnalyzerIdle /\ RecorderIdle /\ TemplateIdle /\ ManagerIdle

Init ==
    \E i \in 1..Len(Docs), st \in Styles :
        /\ doc = Docs[i]
        /\ style = st
        /\ response_text = ResponseText(Docs[i], st)
        /\ pc = "preprocess"
        /\ processed_text = <<>>
        /\ decoded = None
        /\ data = None
        /\ result = ResPending
        /\ GeminiIdle /\ PromptIdle /\ DbIdle /\ VmIdle /\ MoreIdle

\* line 73
Preprocess ==
    /\ pc = "preprocess"
    /\ processed_text' = PreprocessResponse(response_text)
    /\ pc' = "decode"
    /\ UNCHANGED <<doc, style, response_text, decoded, data, result>>
    /\ UNCHANGED <<gemini_vars, prompt_vars, db_vars, vm_vars, more_vars>>

\* lines 75-82
Decode ==
    /\ pc = "decode"
    /\ \E d \in {DecodeResponse(processed_text)} :
          /\ decoded' = d
          /\ data' = d
          /\ IF d.some
             THEN pc' = "sanitize" /\ result' = result
             ELSE pc' = "done" /\ result' = ResNone
    /\ UNCHANGED <<doc, style, response_text, processed_text>>
    /\ UNCHANGED <<gemini_vars, prompt_vars, db_vars, vm_vars, more_vars>>

\* line 85
Sanitize ==
    /\ pc = "sanitize"
    /\ \E clean \in {SanitizeData(data.v)} :
          IF clean.exc = ""
          THEN data' = Some(clean.v) /\ pc' = "validate" /\ result' = result
          ELSE data' = data /\ pc' = "done" /\ result' = ResRaise(clean.exc)
    /\ UNCHANGED <<doc, style, response_text, processed_text, decoded>>
    /\ UNCHANGED <<gemini_vars, prompt_vars, db_vars, vm_vars, more_vars>>

\* lines 87-94
ValidateStep ==
    /\ pc = "validate"
    /\ result' = IF Validate(data.v) THEN ResValue(data.v) ELSE ResNone
    /\ pc' = "done"
    /\ UNCHANGED <<doc, style, response_text, processed_text, decoded, data>>
    /\ UNCHANGED <<gemini_vars, prompt_vars, db_vars, vm_vars, more_vars>>

Next == Preprocess \/ Decode \/ Sanitize \/ ValidateStep

Spec == Init /\ [][Next]_vars

----------------------------------------------------------------------------
(* GeminiService: one call of analyze_video, upload_video or               *)
(* wait_for_file_active.  The provider answers each request as it likes:   *)
(* an upload with a file or an error, a poll with a state or an error, a   *)
(* generation request with a text or an error.  time.time() reads clock,   *)
(* in seconds; time.sleep advances it.                                     *)

\* an exception that no call catches
Propagated(exc) == ResRaise(exc)

\* what an exception does to the call: analyze_video catches it (lines
\* 151-153), the other two let it through
Raised(exc) == IF call = "analyze_video" THEN ResNone ELSE ResRaise(exc)

GeminiStart(c, v, t) ==
    /\ call = c /\ video = v /\ timeout = t /\ g_pc = c
    /\ attempt = 0 /\ uploads = 0 /\ sleeps = <<>>
    /\ file_name = IF c = "wait_for_file_active" THEN Handle(0) ELSE NoFile
    /\ clock = 0 /\ start_time = 0 /\ polls = 0 /\ last_poll = -1
    /\ state = "" /\ gets = 0 /\ generations = 0 /\ response = <<>>
    /\ g_result = ResPending

GeminiInit ==
    /\ \E c \in {"analyze_video", "upload_video"}, v \in Videos :
          GeminiStart(c, v, DEFAULT_TIMEOUT)
    /\ ParserIdle /\ PromptIdle /\ DbIdle /\ VmIdle /\ MoreIdle

\* lines 107-117: validation, outside the try
AnalyzeVideo ==
    /\ g_pc = "analyze_video"
    /\ IF ValidateVideo(video)
       THEN g_pc' = "upload_video" /\ g_result' = g_result
       ELSE g_pc' = "done" /\ g_result' = ResNone
    /\ UNCHANGED <<call, video, timeout, attempt, uploads, sleeps, file_name, clock,
                   start_time, polls, last_poll, state, gets, generations, response>>
    /\ UNCHANGED <<parser_vars, prompt_vars, db_vars, vm_vars, more_vars>>

\* lines 62-74: upload_video up to the call of _retry_with_backoff
UploadVideo ==
    /\ g_pc = "upload_video"
    /\ IF video.exists
       THEN g_pc' = "attempt" /\ g_result' = g_result
       ELSE g_pc' = "done" /\ g_result' = Raised("FileNotFoundError")
    /\ UNCHANGED <<call, video, timeout, attempt, uploads, sleeps, file_name, clock,
                   start_time, polls, last_poll, state, gets, generations, response>>
    /\ UNCHANGED <<parser_vars, prompt_vars, db_vars, vm_vars, more_vars>>

\* lines 157-162 and 76-88: one attempt of the loop.  A file ends the loop and
\* upload_video returns its name; an error of the last attempt is raised again
UploadAttempt ==
    /\ g_pc = "attempt"
    /\ uploads' = uploads + 1
    /\ \E ok \in BOOLEAN :
          IF ok
          THEN /\ file_name' = Handle(attempt)
               /\ IF call = "upload_video"
                  THEN g_pc' = "done" /\ g_result' = ResValue(Str(Handle(attempt)))
                  ELSE g_pc' = "wait_for_file_active" /\ g_result' = g_result
          ELSE /\ file_name' = file_name
               /\ IF attempt = MAX_RETRIES - 1
                  THEN g_pc' = "done" /\ g_result' = Raised("APIError")
                  ELSE g_pc' = "backoff" /\ g_result' = g_result
    /\ UNCHANGED <<call, video, timeout, attempt, sleeps, clock,
                   start_time, polls, last_poll, state, gets, generations, response>>
    /\ UNCHANGED <<parser_vars, prompt_vars, db_vars, vm_vars, more_vars>>

\* lines 163-165: the sleep after a failed attempt that was not the last
Backoff ==
    /\ g_pc = "backoff"
    /\ sleeps' = Append(sleeps, WaitTime(attempt))
    /\ clock' = clock + WaitTime(attempt)
    /\ attempt' = attempt + 1
    /\ g_pc' = "attempt"
    /\ UNCHANGED <<call, video, timeout, uploads, file_name,
                   start_time, polls, last_poll, state, gets, generations, response, g_result>>
    /\ UNCHANGED <<parser_vars, prompt_vars, db_vars, vm_vars, more_vars>>

\* lines 92-95
WaitForFileActive ==
    /\ g_pc = "wait_for_file_active"
    /\ start_time' = clock
    /\ g_pc' = "while"
    /\ UNCHANGED <<call, video, timeout, attempt, uploads, sleeps, file_name, clock,
                   polls, last_poll, state, gets, generations, response, g_result>>
    /\ UNCHANGED <<parser_vars, prompt_vars, db_vars, vm_vars, more_vars>>

\* a caller that goes on whatever wait_for_file_active returned
WaitIgnored(b) == g_pc' = "get" /\ g_result' = g_result

\* wait_for_file_active returns b: to its caller, or into line 124 of
\* analyze_video
WaitReturns(b) ==
    IF call = "wait_for_file_active"
    THEN g_pc' = "done" /\ g_result' = ResValue(Bool(b))
    ELSE IF b
         THEN g_pc' = "get" /\ g_result' = g_result
         ELSE g_pc' = "done" /\ g_result' = ResNone

\* line 96, and lines 104-105 when the time is up
WaitLoop ==
    /\ g_pc = "while"
    /\ IF InTime(clock, start_time, timeout)
       THEN g_pc' = "poll" /\ g_result' = g_result
       ELSE WaitReturns(FALSE)
    /\ UNCHANGED <<call, video, timeout, attempt, uploads, sleeps, file_name, clock,
                   start_time, polls, last_poll, state, gets, generations, response>>
    /\ UNCHANGED <<parser_vars, prompt_vars, db_vars, vm_vars, more_vars>>

\* lines 97-102: one poll
Poll ==
    /\ g_pc = "poll"
    /\ polls' = polls + 1
    /\ last_poll' = clock
    /\ \/ \E s \in FileStates :
             /\ state' = s
             /\ CASE s = "ACTIVE" -> WaitReturns(TRUE)
                  [] s = "FAILED" -> WaitReturns(FALSE)
                  [] OTHER -> g_pc' = "sleep" /\ g_result' = g_result
       \/ state' = state /\ g_pc' = "done" /\ g_result' = Raised("APIError")
    /\ UNCHANGED <<call, video, timeout, attempt, uploads, sleeps, file_name, clock,
                   start_time, gets, generations, response>>
    /\ UNCHANGED <<parser_vars, prompt_vars, db_vars, vm_vars, more_vars>>

\* line 103
PollSleep ==
    /\ g_pc = "sleep"
    /\ clock' = clock + POLL_INTERVAL
    /\ g_pc' = "while"
    /\ UNCHANGED <<call, video, timeout, attempt, uploads, sleeps, file_name,
                   start_time, polls, last_poll, state, gets, generations, response, g_result>>
    /\ UNCHANGED <<parser_vars, prompt_vars, db_vars, vm_vars, more_vars>>

\* line 129
GetFile ==
    /\ g_pc = "get"
    /\ gets' = gets + 1
    /\ \E ok \in BOOLEAN :
          IF ok
          THEN g_pc' = "generate" /\ g_result' = g_result
          ELSE g_pc' = "done" /\ g_result' = Raised("APIError")
    /\ UNCHANGED <<call, video, timeout, attempt, uploads, sleeps, file_name, clock,
                   start_time, polls, last_poll, state, generations, response>>
    /\ UNCHANGED <<parser_vars, prompt_vars, db_vars, vm_vars, more_vars>>

\* lines 135-139
GenerateContent ==
    /\ g_pc = "generate"
    /\ generations' = generations + 1
    /\ \/ \E text \in Responses :
             response' = text /\ g_pc' = "parse" /\ g_result' = g_result
       \/ response' = response /\ g_pc' = "done" /\ g_result' = Raised("APIError")
    /\ UNCHANGED <<call, video, timeout, attempt, uploads, sleeps, file_name, clock,
                   start_time, polls, last_poll, state, gets>>
    /\ UNCHANGED <<parser_vars, prompt_vars, db_vars, vm_vars, more_vars>>

\* lines 145-153
ParseResponse ==
    /\ g_pc = "parse"
    /\ \E r \in {Parse(response)} :
          g_result' = IF r.kind = "raise" THEN Raised(r.exc) ELSE r
    /\ g_pc' = "done"
    /\ UNCHANGED <<call, video, timeout, attempt, uploads, sleeps, file_name, clock,
                   start_time, polls, last_poll, state, gets, generations, response>>
    /\ UNCHANGED <<parser_vars, prompt_vars, db_vars, vm_vars, more_vars>>

GeminiNext ==
    \/ AnalyzeVideo \/ UploadVideo \/ UploadAttempt \/ Backoff
    \/ WaitForFileActive \/ WaitLoop \/ Poll \/ PollSleep
    \/ GetFile \/ GenerateContent \/ ParseResponse

GeminiSpec == GeminiInit /\ [][GeminiNext]_vars

\* wait_for_file_active called by itself.  A step that is possible is taken:
\* the thread that runs the loop is not suspended forever.
WaitInit ==
    /\ \E t \in Timeouts : GeminiStart("wait_for_file_active", Null, t)
    /\ ParserIdle /\ PromptIdle /\ DbIdle /\ VmIdle /\ MoreIdle

WaitNext == WaitForFileActive \/ WaitLoop \/ Poll \/ PollSleep

WaitSpec == WaitInit /\ [][WaitNext]_vars /\ WF_vars(WaitNext)
----------------------------------------------------------------------------
(* PromptBuilder: a caller that holds one custom_variables object and      *)
(* passes it to every build_prompt call it makes.                          *)

PromptInit ==
    /\ prompt_dao \in BOOLEAN
    /\ store \in Stores
    /\ custom_variables \in CustomVariables
    /\ variables0 = custom_variables
    /\ passed = NoDict
    /\ scenario_category = ""
    /\ video_context = NoDict
    /\ calls = 0
    /\ prompt = <<>>
    /\ ParserIdle /\ GeminiIdle /\ DbIdle /\ VmIdle /\ MoreIdle

\* lines 90-114, with render_prompt (prompt_template_dao.py 92-102)
BuildPromptCall ==
    /\ calls < MaxCalls
    /\ \E category \in ScenarioCategories, ctx \in Contexts :
          /\ scenario_category' = category
          /\ video_context' = ctx
          /\ passed' = custom_variables
          /\ prompt' = BuildPrompt(prompt_dao, store, category, ctx, custom_variables)
          /\ custom_variables' = VariablesAfter(prompt_dao, store, category, custom_variables)
    /\ calls' = calls + 1
    /\ UNCHANGED <<prompt_dao, store, variables0>>
    /\ UNCHANGED <<parser_vars, gemini_vars, db_vars, vm_vars, more_vars>>

PromptNext == BuildPromptCall

PromptSpec == PromptInit /\ [][PromptNext]_vars
----------------------------------------------------------------------------
(* The DAOs and HistoryService on a database DatabaseManager has just      *)
(* initialized.  Each step is one call, made on a thread; op, op_thread,   *)
(* op_ref and op_path say which, db0 and analyses0 are the database and    *)
(* the legacy records before it, d_ret and d_exc what a create returned or *)
(* raised, saved and deleted what save_ai_analysis_result and              *)
(* RecordingDAO.delete returned, details the analysis                      *)
(* get_analysis_details reported.  The time a call reads is the number of  *)
(* calls made before it.                                                   *)

\* no row: what op_row holds before the first save
NoRow == AnalysisRow(NULL, NULL, "", 0, 0)

DbStart ==
    /\ db = EmptyDb /\ db0 = EmptyDb /\ next_id = 1 /\ ops = 0
    /\ op = "" /\ op_ref = NULL /\ op_path = "" /\ op_result = Results0
    /\ d_ret = NULL /\ d_exc = "" /\ saved = FALSE
    /\ conns = Connections0 /\ op_thread = "main" /\ op_row = NoRow
    /\ analyses0 = {} /\ save_log = {}
    /\ deleted = FALSE /\ details = NULL

DbInit ==
    /\ DbStart /\ analyses = {}
    /\ ParserIdle /\ GeminiIdle /\ PromptIdle /\ VmIdle /\ MoreIdle

\* what a call that is no save, delete or report leaves alone
CallFrame(name, t, ref, path) ==
    /\ ops < MaxOps
    /\ db0' = db
    /\ analyses0' = analyses
    /\ ops' = ops + 1
    /\ op' = name /\ op_thread' = t /\ op_ref' = ref /\ op_path' = path
    /\ conns' = GetConnection(conns, t)
    /\ UNCHANGED analyses
    /\ UNCHANGED <<parser_vars, gemini_vars, prompt_vars, vm_vars, more_vars>>

\* a create of a DAO on thread t: the uuid is drawn, the row inserted on the
\* thread's connection, its id returned
Create(name, table, row, ref, path, t) ==
    /\ CallFrame(name, t, ref, path)
    /\ \E r \in {ExecuteInsert(GetConnection(conns, t)[t].foreign_keys, db, table, row)} :
          /\ db' = r.db
          /\ d_exc' = r.exc
          /\ d_ret' = IF r.exc = "" THEN next_id ELSE NULL
    /\ next_id' = next_id + 1
    /\ UNCHANGED <<op_result, saved, op_row, save_log, deleted, details>>

\* an id of a row of the table, or one no row has
Refs(rows) == Ids(rows) \cup {next_id}

\* recording_dao.py, create
RecordingCreate ==
    \E path \in VideoPaths, t \in Threads :
        Create("RecordingDAO.create", "recording", RecordingRow(next_id, path), NULL, path, t)

\* keyframe_dao.py, create: created_at is the caller's, or the time read
KeyFrameVideoCreate ==
    \E ref \in Refs(db.recording), path \in VideoPaths, at \in CreatedAts, t \in Threads :
        Create("KeyFrameVideoDAO.create", "keyframe_video", KeyFrameRow(next_id, ref, path, at),
               ref, path, t)

\* ai_analysis_dao.py, lines 20-42: started_at is set when it is empty
AIAnalysisCreate ==
    \E ref \in Refs(db.keyframe_video) \cup {NULL}, t \in Threads :
        Create("AIAnalysisDAO.create", "ai_analysis",
               AnalysisRow(next_id, ref, "completed", ops, 0), ref, "", t)

\* timestamp_event_dao.py, create
TimestampEventCreate ==
    \E ref \in Refs(db.ai_analysis), e \in Events, t \in Threads :
        Create("TimestampEventDAO.create", "timestamp_event", EventRow(next_id, ref, e), ref, "", t)

\* key_finding_dao.py, create
KeyFindingCreate ==
    \E ref \in Refs(db.ai_analysis), f \in Findings, t \in Threads :
        Create("KeyFindingDAO.create", "key_finding", FindingRow(next_id, ref, f), ref, "", t)

\* analysis_metadata_dao.py, create
AnalysisMetadataCreate ==
    \E ref \in Refs(db.ai_analysis), m \in Metadata, t \in Threads :
        Create("AnalysisMetadataDAO.create", "analysis_metadata", MetadataRow(next_id, ref, m),
               ref, "", t)

\* recording_dao.py, delete: True when a row went
RecordingDelete ==
    \E ref \in Refs(db.recording), t \in Threads :
        /\ CallFrame("RecordingDAO.delete", t, ref, "")
        /\ db' = ExecuteDelete(GetConnection(conns, t)[t].foreign_keys, db, ref)
        /\ deleted' = (ref \in Ids(db.recording))
        /\ d_ret' = NULL /\ d_exc' = ""
        /\ UNCHANGED <<next_id, op_result, saved, op_row, save_log, details>>

\* database_manager.py, close: the thread's connection is closed and dropped
Close ==
    \E t \in Threads :
        /\ conns[t].open
        /\ ops < MaxOps
        /\ conns' = [conns EXCEPT ![t] = Closed]
        /\ ops' = ops + 1
        /\ op' = "DatabaseManager.close" /\ op_thread' = t /\ op_ref' = NULL /\ op_path' = ""
        /\ db0' = db /\ analyses0' = analyses
        /\ d_ret' = NULL /\ d_exc' = ""
        /\ UNCHANGED <<db, next_id, op_result, saved, op_row, save_log, deleted, details,
                       analyses>>
        /\ UNCHANGED <<parser_vars, gemini_vars, prompt_vars, vm_vars, more_vars>>

\* history_service.py, lines 469-556, on thread t for recording ref with the
\* keyframe video the query put first
Save(t, ref, res, keyframe_id) ==
    /\ conns' = GetConnection(conns, t)
    /\ \E r \in {SaveRows(GetConnection(conns, t)[t].foreign_keys, db, keyframe_id, res,
                          next_id, ops)} :
          /\ db' = r.db
          /\ saved' = (r.exc = "")
          /\ analyses' = AddAnalysis(r, analyses, next_id + IdsDrawn(res) - 1, ref)
    /\ op_row' = AnalysisRow(next_id, keyframe_id, "completed", ops, ops)
    /\ save_log' = save_log \cup {[analysis_id |-> next_id, recording_id |-> ref]}
    /\ op_ref' = ref
    /\ op_result' = res
    /\ op_thread' = t
    /\ next_id' = next_id + IdsDrawn(res)
    /\ db0' = db /\ analyses0' = analyses
    /\ ops' = ops + 1
    /\ op' = "HistoryService.save_ai_analysis_result" /\ op_path' = ""
    /\ d_ret' = NULL /\ d_exc' = ""
    /\ UNCHANGED <<deleted, details>>

SaveAiAnalysisResult ==
    /\ ops < MaxOps
    /\ \E t \in Threads, ref \in Refs(db.recording), res \in Results :
          \E keyframe_id \in FirstKeyframe(db, ref) :
              Save(t, ref, res, keyframe_id)
    /\ UNCHANGED <<parser_vars, gemini_vars, prompt_vars, vm_vars, more_vars>>

\* history_service.py, lines 642-730
AnalysisDetails ==
    \E ref \in Refs(db.recording), t \in Threads :
        /\ CallFrame("HistoryService.get_analysis_details", t, ref, "")
        /\ \E keyframe_id \in FirstKeyframe(db, ref) :
              details' \in GetAnalysisDetails(db, ref, keyframe_id)
        /\ d_ret' = NULL /\ d_exc' = ""
        /\ UNCHANGED <<db, next_id, op_result, saved, op_row, save_log, deleted>>

DbNext ==
    \/ RecordingCreate \/ KeyFrameVideoCreate \/ AIAnalysisCreate
    \/ TimestampEventCreate \/ KeyFindingCreate \/ AnalysisMetadataCreate
    \/ RecordingDelete \/ Close \/ SaveAiAnalysisResult \/ AnalysisDetails

DbSpec == DbInit /\ [][DbNext]_vars
----------------------------------------------------------------------------
(* The view model with its workers.  vm_op and vm_id are the last step (a  *)
(* call of a slot, the run of a worker, the delivery of a signal to its    *)
(* slot) and its record id, vm0 the view model before it.                  *)

VmState ==
    [processing_ids |-> processing_ids, html_cache |-> html_cache, ai_worker |-> ai_worker,
     worker |-> worker, running |-> running, events |-> events]

\* __init__, lines 99-128, with the service's records loaded from analyses.json
VmInit ==
    /\ gemini_service \in BOOLEAN
    /\ processing_ids = {} /\ html_cache = {}
    /\ ai_worker = 0 /\ worker = 0 /\ running = {} /\ events = <<>>
    /\ started = 0 /\ vm_calls = 0 /\ vm_op = "" /\ vm_id = 0
    /\ vm0 = [processing_ids |-> {}, html_cache |-> {}, ai_worker |-> 0, worker |-> 0,
              running |-> {}, events |-> <<>>]
    /\ emitted = {}
    /\ DbStart /\ analyses \in SUBSET LegacyRecords
    /\ ParserIdle /\ GeminiIdle /\ PromptIdle /\ MoreIdle

\* a call of a slot from the user interface
SlotCall(name, id) ==
    /\ vm_calls < MaxStarts
    /\ vm_calls' = vm_calls + 1
    /\ vm_op' = name /\ vm_id' = id
    /\ vm0' = VmState
    /\ UNCHANGED <<gemini_service, html_cache, events>>
    /\ UNCHANGED <<parser_vars, gemini_vars, prompt_vars, db_vars, more_vars>>

\* lines 508-525
StartAIAnalysis ==
    \E id \in RecordIds :
        /\ SlotCall("startAIAnalysis", id)
        /\ IF ~gemini_service \/ IsProcessing(id, processing_ids)
           THEN /\ UNCHANGED <<processing_ids, ai_worker, running, started>>
                /\ emitted' = {}
           ELSE /\ processing_ids' = processing_ids \cup {id}
                /\ emitted' = {Signal("processingStarted", id), Signal("historyListChanged", 0)}
                /\ ai_worker' = started + 1
                /\ running' = running \cup {Worker(started + 1, "ai", id)}
                /\ started' = started + 1
        /\ UNCHANGED worker

\* lines 437-458, with pids the processing set and run the workers when it
\* is reached, d and records the database and the legacy records, before
\* the signals the slot has emitted until then
Preload(id, pids, run, d, records, before) ==
    IF ~IsProcessing(id, pids) /\ id \notin html_cache' /\ HasMarkdown(d, records, id)
    THEN /\ processing_ids' = pids \cup {id}
         /\ emitted' = before \cup {Signal("processingStarted", id)}
         /\ worker' = started + 1
         /\ running' = run \cup {Worker(started + 1, "md", id)}
         /\ started' = started + 1
    ELSE /\ processing_ids' = pids
         /\ emitted' = before
         /\ running' = run
         /\ UNCHANGED <<worker, started>>

PreloadAnalysisContent ==
    \E id \in RecordIds :
        /\ SlotCall("preloadAnalysisContent", id)
        /\ Preload(id, processing_ids, running, db, analyses, {})
        /\ UNCHANGED ai_worker

\* AIAnalysisWorker.run, lines 40-78, and MarkdownWorker.run, lines 23-25:
\* the worker emits its one signal
WorkerRun ==
    \E w \in running :
        /\ running' = running \ {w}
        /\ \E signal \in (IF w.kind = "ai" THEN {"finished", "error"} ELSE {"finished"}) :
              events' = Append(events, [signal |-> signal, worker |-> w])
        /\ vm_op' = "run" /\ vm_id' = w.id
        /\ emitted' = {}
        /\ vm0' = VmState
        /\ UNCHANGED <<gemini_service, processing_ids, html_cache, ai_worker, worker, started,
                       vm_calls>>
        /\ UNCHANGED <<parser_vars, gemini_vars, prompt_vars, db_vars, more_vars>>

\* what the delivery of the first signal does to the queue and the history
Deliver(name, kind, signal) ==
    /\ events # <<>>
    /\ Head(events).worker.kind = kind
    /\ Head(events).signal = signal
    /\ events' = Tail(events)
    /\ vm_op' = name /\ vm_id' = Head(events).worker.id
    /\ vm0' = VmState
    /\ UNCHANGED <<gemini_service, vm_calls>>
    /\ UNCHANGED <<parser_vars, gemini_vars, prompt_vars, more_vars>>

\* lines 527-542: raw_result is never empty, so the result is saved with
\* save_ai_analysis_result; loadHistory emits the signals of the list,
\* processingCompleted follows, then the content is preloaded
OnAiAnalysisFinished ==
    /\ Deliver("_on_ai_analysis_finished", "ai", "finished")
    /\ \E res \in Results, keyframe_id \in FirstKeyframe(db, Head(events).worker.id) :
          Save("main", Head(events).worker.id, res, keyframe_id)
    /\ html_cache' = html_cache
    /\ Preload(Head(events).worker.id, processing_ids \ {Head(events).worker.id}, running,
               db', analyses',
               {Signal("historyListChanged", 0), Signal("totalCountChanged", 0),
                Signal("statisticsChanged", 0),
                Signal("processingCompleted", Head(events).worker.id)})
    /\ UNCHANGED ai_worker

\* lines 544-549
OnAiAnalysisError ==
    /\ Deliver("_on_ai_analysis_error", "ai", "error")
    /\ processing_ids' = processing_ids \ {Head(events).worker.id}
    /\ emitted' = {Signal("errorOccurred", 0), Signal("historyListChanged", 0)}
    /\ UNCHANGED <<html_cache, ai_worker, worker, running, started>>
    /\ UNCHANGED db_vars

\* lines 424-434: the call of save_rendered_html, which HistoryService does
\* not have, raises AttributeError and ends the slot before line 430
OnRenderFinished ==
    /\ Deliver("_on_render_finished", "md", "finished")
    /\ html_cache' = html_cache \cup {Head(events).worker.id}
    /\ processing_ids' = processing_ids \ {Head(events).worker.id}
    /\ emitted' = {}
    /\ UNCHANGED <<ai_worker, worker, running, started>>
    /\ UNCHANGED db_vars

VmNext ==
    \/ StartAIAnalysis \/ PreloadAnalysisContent \/ WorkerRun
    \/ OnAiAnalysisFinished \/ OnAiAnalysisError \/ OnRenderFinished

VmSpec == VmInit /\ [][VmNext]_vars
----------------------------------------------------------------------------
(* The calls of one AnalyzerService, each under the service's lock *)

AnalyzerInit ==
    /\ AnalyzerIdle
    /\ ParserIdle /\ GeminiIdle /\ PromptIdle /\ DbIdle /\ VmIdle
    /\ RecorderIdle /\ TemplateIdle /\ ManagerIdle

\* one call: its name, what it gives, the uuids it drew
AnalyzerCall(name, gives, drawn) ==
    /\ a_calls < MaxAnalyzerCalls
    /\ a_calls' = a_calls + 1
    /\ a_op' = name
    /\ analyzer0' = analyzer
    /\ analyzer' = gives.service
    /\ a_ret' = gives.ret
    /\ uuids' = uuids + drawn
    /\ UNCHANGED <<parser_vars, gemini_vars, prompt_vars, db_vars, vm_vars,
                   rec_vars, tpl_vars, dm_vars>>

\* a session is created only past the two guards
Draws(a, guard) == IF guard \/ ~a.api THEN 0 ELSE 1

\* initialize, lines 106-147: the API is created, or is not
AnalyzerInitialize ==
    \E created \in BOOLEAN :
        AnalyzerCall("initialize", Gives([analyzer EXCEPT !.api = created], created), 0)

StartAnalysis ==
    \E recording_id \in {NoRecordingId, 1}, outcome \in ApiOutcomes :
        AnalyzerCall("start_analysis",
                     StartAnalysisOf(analyzer, AnalysisSession(uuids + 1, recording_id), outcome),
                     Draws(analyzer, is_running(analyzer)))

StartFileAnalysis ==
    \E outcome \in ApiOutcomes :
        AnalyzerCall("start_file_analysis",
                     StartAnalysisOf(analyzer, AnalysisSession(uuids + 1, NoRecordingId), outcome),
                     Draws(analyzer, is_running(analyzer)))

StopAnalysis ==
    \E outcome \in {"true", "raise"} :
        AnalyzerCall("stop_analysis", StopAnalysisOf(analyzer, outcome), 0)

StartRealtimeAnalysis ==
    \E recording_id \in {NoRecordingId, 1}, outcome \in ApiOutcomes :
        AnalyzerCall("start_realtime_analysis",
                     StartRealtimeAnalysisOf(analyzer, AnalysisSession(uuids + 1, recording_id),
                                             outcome),
                     Draws(analyzer, is_realtime_mode(analyzer)))

StopRealtimeAnalysis ==
    \E outcome \in {"true", "raise"} :
        AnalyzerCall("stop_realtime_analysis", StopRealtimeAnalysisOf(analyzer, outcome), 0)

AnalyzerShutdown ==
    \E outcome \in {"true", "raise"} :
        AnalyzerCall("shutdown", ShutdownOf(analyzer, outcome), 0)

\* the native analyzer reports a key frame
OnKeyframe ==
    /\ analyzer.current_session.keyframe_results < MaxKeyframes
    /\ AnalyzerCall("on_keyframe", Gives(OnKeyframeOf(analyzer), FALSE), 0)

AnalyzerNext ==
    \/ AnalyzerInitialize
    \/ StartAnalysis
    \/ StartFileAnalysis
    \/ StopAnalysis
    \/ StartRealtimeAnalysis
    \/ StopRealtimeAnalysis
    \/ AnalyzerShutdown
    \/ OnKeyframe

AnalyzerSpec == AnalyzerInit /\ [][AnalyzerNext]_vars

----------------------------------------------------------------------------
(* The calls of one RecorderService from two threads, statement by         *)
(* statement where the lock matters.  The analyzer and the history service *)
(* are attached (set_analyzer_service, set_history_service) and the        *)
(* analyzer is initialized; _auto_enable_realtime keeps its default, True. *)

RecorderInit ==
    /\ RecorderIdle
    /\ analyzer = [NewAnalyzer EXCEPT !.api = TRUE] /\ analyzer0 = NewAnalyzer
    /\ uuids = 0 /\ a_calls = 0 /\ a_op = "" /\ a_ret = FALSE
    /\ ParserIdle /\ GeminiIdle /\ PromptIdle /\ DbIdle /\ VmIdle
    /\ TemplateIdle /\ ManagerIdle

\* what every step of the recorder leaves alone and records
RecorderStep(name, t, arg) ==
    /\ r_step' = name /\ r_thread' = t /\ r_arg' = arg
    /\ recorder0' = recorder /\ history0' = history
    /\ UNCHANGED <<analyzer0, a_calls, a_op, a_ret>>
    /\ UNCHANGED <<parser_vars, gemini_vars, prompt_vars, db_vars, vm_vars, tpl_vars, dm_vars>>

\* a thread returns from its call
Returns_(t, ret, pc_) ==
    /\ r_ret' = [r_ret EXCEPT ![t] = ret]
    /\ r_pc' = [r_pc EXCEPT ![t] = pc_]

\* initialize, lines 95-135: the API is created, or is not
RecorderInitialize ==
    \E created \in BOOLEAN :
        /\ r_calls < MaxRecorderCalls /\ r_calls' = r_calls + 1
        /\ \A t \in Callers : r_pc[t] = "idle"
        /\ ~recorder.api
        /\ recorder' = [recorder EXCEPT !.api = created]
        /\ RecorderStep("initialize", 0, 0)
        /\ UNCHANGED <<history, r_lock, r_pc, r_call, r_ret, live_starts, analyzer, uuids>>

\* a thread calls start_recording or stop_recording
RecorderCall(t, name) ==
    /\ r_calls < MaxRecorderCalls /\ r_calls' = r_calls + 1
    /\ r_pc[t] = "idle"
    /\ r_call' = [r_call EXCEPT ![t] = name]
    /\ Returns_(t, "", "lock")
    /\ RecorderStep("call", t, 0)
    /\ UNCHANGED <<recorder, history, r_lock, live_starts, analyzer, uuids>>

CallStartRecording == \E t \in Callers : RecorderCall(t, "start_recording")

CallStopRecording == \E t \in Callers : RecorderCall(t, "stop_recording")

\* lines 182 and 272: with self._lock
Acquire ==
    \E t \in Callers :
        /\ r_pc[t] = "lock"
        /\ LockFree(r_lock)
        /\ r_lock' = t
        /\ r_pc' = [r_pc EXCEPT ![t] = "check"]
        /\ RecorderStep("lock", t, 0)
        /\ UNCHANGED <<recorder, history, r_call, r_ret, live_starts, r_calls, analyzer, uuids>>

\* lines 183-189: a recording in progress, or no API
StartCheck ==
    \E t \in Callers :
        /\ r_pc[t] = "check" /\ r_call[t] = "start_recording"
        /\ IF recorder.current_session # NoRecording \/ ~recorder.api
           THEN Returns_(t, "False", "idle") /\ r_lock' = 0
           ELSE Returns_(t, "", "create") /\ r_lock' = r_lock
        /\ RecorderStep("check", t, 0)
        /\ UNCHANGED <<recorder, history, r_call, live_starts, r_calls, analyzer, uuids>>

\* lines 205-214: the session, and its row in the history database
StartCreate ==
    \E t \in Callers :
        /\ r_pc[t] = "create"
        /\ recorder' = [recorder EXCEPT !.current_session = RecordingSession(uuids + 1)]
        /\ uuids' = uuids + 1
        /\ history' = HistoryStartRecording(history, uuids + 1)
        /\ r_pc' = [r_pc EXCEPT ![t] = "start"]
        /\ RecorderStep("create", t, uuids + 1)
        /\ UNCHANGED <<r_lock, r_call, r_ret, live_starts, r_calls, analyzer>>

\* lines 233-254: the API is configured and started
StartApi ==
    \E t \in Callers, outcome \in ApiOutcomes :
        /\ r_pc[t] = "start"
        /\ IF outcome = "true"
           THEN /\ Returns_(t, "", "after")
                /\ live_starts' = live_starts + 1
                /\ recorder' = recorder
           ELSE /\ Returns_(t, "False", "idle")
                /\ live_starts' = live_starts
                /\ recorder' = [recorder EXCEPT !.current_session = NoRecording]
        /\ r_lock' = 0
        /\ RecorderStep("start", t, RecordIdOf(recorder.current_session))
        /\ UNCHANGED <<history, r_call, r_calls, analyzer, uuids>>

\* lines 257-263, outside the lock: in SNAPSHOT mode the analyzer is asked
\* to start its realtime analysis for the recording; its answer is not read
StartAfter ==
    \E t \in Callers, outcome \in ApiOutcomes :
        /\ r_pc[t] = "after"
        /\ IF recorder.pending_mode = "SNAPSHOT"
           THEN /\ analyzer' = StartRealtimeAnalysisOf(analyzer,
                                   AnalysisSession(uuids + 1, RecordIdOf(recorder.current_session)),
                                   outcome).service
                /\ uuids' = uuids + Draws(analyzer, is_realtime_mode(analyzer))
           ELSE /\ outcome = "true"
                /\ UNCHANGED <<analyzer, uuids>>
        /\ Returns_(t, "True", "idle")
        /\ RecorderStep("started", t, RecordIdOf(recorder.current_session))
        /\ UNCHANGED <<recorder, history, r_lock, r_call, live_starts, r_calls>>

\* stop_recording, lines 273-335, under the lock
StopRecording ==
    \E t \in Callers, outcome \in {"true", "raise"}, stopped \in {"true", "raise"} :
        /\ r_pc[t] = "check" /\ r_call[t] = "stop_recording"
        /\ IF recorder.current_session = NoRecording \/ ~recorder.api \/ outcome = "raise"
           THEN /\ Returns_(t, "False", "idle")
                /\ stopped = "true"
                /\ UNCHANGED <<recorder, history, live_starts, analyzer>>
           ELSE /\ Returns_(t, "True", "idle")
                /\ IF is_realtime_mode(analyzer)
                   THEN analyzer' = StopRealtimeAnalysisOf(analyzer, stopped).service
                   ELSE stopped = "true" /\ analyzer' = analyzer
                /\ history' = HistoryUpdateRecording(history, recorder.current_session.session_id)
                /\ recorder' = [recorder EXCEPT !.current_session = NoRecording]
                /\ live_starts' = 0
        /\ r_lock' = 0
        /\ RecorderStep("stop", t, RecordIdOf(recorder.current_session))
        /\ UNCHANGED <<r_call, r_calls, uuids>>

\* set_recording_mode, lines 337-376: no lock; with an API the analyzer
\* follows the mode
SetRecordingMode ==
    \E mode \in RecorderModes, outcome \in {"true", "raise"}, answer \in ApiOutcomes :
        /\ r_calls < MaxRecorderCalls /\ r_calls' = r_calls + 1
        /\ recorder' = [recorder EXCEPT !.pending_mode = mode]
        /\ IF ~recorder.api \/ outcome = "raise"
           THEN /\ answer = "true"
                /\ UNCHANGED <<analyzer, uuids>>
           ELSE IF mode = "SNAPSHOT"
           THEN /\ analyzer' = StartRealtimeAnalysisOf(analyzer,
                                   AnalysisSession(uuids + 1, NoRecordingId), answer).service
                /\ uuids' = uuids + Draws(analyzer, is_realtime_mode(analyzer))
           ELSE /\ answer # "false"
                /\ analyzer' = StopRealtimeAnalysisOf(analyzer, answer).service
                /\ uuids' = uuids
        /\ RecorderStep("set_recording_mode", 0, 0)
        /\ UNCHANGED <<history, r_lock, r_pc, r_call, r_ret, live_starts>>

\* HistoryService.delete_recording(record_id), from the history page
DeleteRecording ==
    \E record_id \in 1 .. uuids :
        /\ r_calls < MaxRecorderCalls /\ r_calls' = r_calls + 1
        /\ history' = HistoryDeleteRecording(history, record_id).service
        /\ r_step' = IF HistoryDeleteRecording(history, record_id).ret
                     THEN "deleted" ELSE "not deleted"
        /\ r_thread' = 0 /\ r_arg' = record_id
        /\ recorder0' = recorder /\ history0' = history
        /\ UNCHANGED <<recorder, r_lock, r_pc, r_call, r_ret, live_starts, an_vars>>
        /\ UNCHANGED <<parser_vars, gemini_vars, prompt_vars, db_vars, vm_vars, tpl_vars, dm_vars>>

RecorderNext ==
    \/ RecorderInitialize
    \/ CallStartRecording
    \/ CallStopRecording
    \/ Acquire
    \/ StartCheck
    \/ StartCreate
    \/ StartApi
    \/ StartAfter
    \/ StopRecording
    \/ SetRecordingMode
    \/ DeleteRecording

RecorderSpec == RecorderInit /\ [][RecorderNext]_vars

----------------------------------------------------------------------------
(* The calls of one PromptTemplateDAO *)

TemplateInit ==
    /\ TemplateIdle
    /\ ParserIdle /\ GeminiIdle /\ PromptIdle /\ DbIdle /\ VmIdle
    /\ AnalyzerIdle /\ RecorderIdle /\ ManagerIdle

TemplateCall(name, rows, ret) ==
    /\ t_calls < MaxTemplateCalls
    /\ t_calls' = t_calls + 1
    /\ t_op' = name
    /\ templates0' = templates
    /\ templates' = rows
    /\ t_ret' = ret
    /\ UNCHANGED <<parser_vars, gemini_vars, prompt_vars, db_vars, vm_vars,
                   an_vars, rec_vars, dm_vars>>

TemplateCreate ==
    \E prompt_id \in PromptIds, category \in TemplateCategories, is_default \in {0, 1} :
        TemplateCall("create",
                     TemplateCreateOf(templates, PromptTemplate(prompt_id, category, is_default)),
                     TRUE)

TemplateUpdate ==
    \E prompt_id \in PromptIds, category \in TemplateCategories, is_default \in {0, 1} :
        \E gives \in {TemplateUpdateOf(templates, PromptTemplate(prompt_id, category, is_default))} :
            TemplateCall("update", gives.service, gives.ret)

TemplateDelete ==
    \E prompt_id \in PromptIds :
        \E gives \in {TemplateDeleteOf(templates, prompt_id)} :
            TemplateCall("delete", gives.service, gives.ret)

SetAsDefault ==
    \E prompt_id \in PromptIds, category \in TemplateCategories :
        \E gives \in {SetAsDefaultOf(templates, prompt_id, category)} :
            TemplateCall("set_as_default", gives.service, gives.ret)

TemplateNext ==
    \/ TemplateCreate
    \/ TemplateUpdate
    \/ TemplateDelete
    \/ SetAsDefault

TemplateSpec == TemplateInit /\ [][TemplateNext]_vars

----------------------------------------------------------------------------
(* DatabaseManager(db_path) from two threads, statement by statement *)

ManagerInit ==
    /\ ManagerIdle
    /\ ParserIdle /\ GeminiIdle /\ PromptIdle /\ DbIdle /\ VmIdle
    /\ AnalyzerIdle /\ RecorderIdle /\ TemplateIdle

\* a step of thread t's construction, to the statement at next
ManagerStep(t, next) ==
    /\ m_pc' = [m_pc EXCEPT ![t] = next]
    /\ UNCHANGED <<parser_vars, gemini_vars, prompt_vars, db_vars, vm_vars,
                   an_vars, rec_vars, tpl_vars>>

\* a thread evaluates DatabaseManager(db_path)
Construct ==
    \E t \in Constructors, db_path \in DbPaths :
        /\ m_calls < MaxConstructions /\ m_calls' = m_calls + 1
        /\ m_pc[t] = "idle"
        /\ m_path' = [m_path EXCEPT ![t] = db_path]
        /\ m_got' = [m_got EXCEPT ![t] = 0]
        /\ ManagerStep(t, "new")
        /\ UNCHANGED <<manager, m_lock, m_first>>

\* line 20: if not cls._instance
NewCheck ==
    \E t \in Constructors :
        /\ m_pc[t] = "new"
        /\ ManagerStep(t, IF manager.instance = 0 THEN "lock" ELSE "return")
        /\ UNCHANGED <<manager, m_lock, m_path, m_got, m_first, m_calls>>

\* line 21: with cls._lock
NewLock ==
    \E t \in Constructors :
        /\ m_pc[t] = "lock"
        /\ m_lock = 0
        /\ m_lock' = t
        /\ ManagerStep(t, "create")
        /\ UNCHANGED <<manager, m_path, m_got, m_first, m_calls>>

\* lines 22-23, and the lock is released
NewCreate ==
    \E t \in Constructors :
        /\ m_pc[t] = "create"
        /\ manager' = NewInstance(manager)
        /\ m_lock' = 0
        /\ ManagerStep(t, "return")
        /\ UNCHANGED <<m_path, m_got, m_first, m_calls>>

\* line 24: return cls._instance; __init__ is called on it
NewReturn ==
    \E t \in Constructors :
        /\ m_pc[t] = "return"
        /\ m_got' = [m_got EXCEPT ![t] = manager.instance]
        /\ ManagerStep(t, "init")
        /\ UNCHANGED <<manager, m_lock, m_path, m_first, m_calls>>

\* lines 27-28: if hasattr(self, '_initialized'): return
InitCheck ==
    \E t \in Constructors :
        /\ m_pc[t] = "init"
        /\ ManagerStep(t, IF manager.initialized THEN "idle" ELSE "path")
        /\ UNCHANGED <<manager, m_lock, m_path, m_got, m_first, m_calls>>

\* lines 30-33
InitPath ==
    \E t \in Constructors :
        /\ m_pc[t] = "path"
        /\ manager' = AssignPath(manager, m_path[t])
        /\ m_first' = IF manager.assigned = 0 THEN m_path[t] ELSE m_first
        /\ ManagerStep(t, "schema")
        /\ UNCHANGED <<m_lock, m_path, m_got, m_calls>>

\* line 34
InitSchema ==
    \E t \in Constructors :
        /\ m_pc[t] = "schema"
        /\ manager' = InitializeDatabase(manager)
        /\ ManagerStep(t, "done")
        /\ UNCHANGED <<m_lock, m_path, m_got, m_first, m_calls>>

\* line 35: self._initialized = True
InitDone ==
    \E t \in Constructors :
        /\ m_pc[t] = "done"
        /\ manager' = [manager EXCEPT !.initialized = TRUE]
        /\ ManagerStep(t, "idle")
        /\ UNCHANGED <<m_lock, m_path, m_got, m_first, m_calls>>

ManagerNext ==
    \/ Construct
    \/ NewCheck
    \/ NewLock
    \/ NewCreate
    \/ NewReturn
    \/ InitCheck
    \/ InitPath
    \/ InitSchema
    \/ InitDone

ManagerSpec == ManagerInit /\ [][ManagerNext]_vars


----------------------------------------------------------------------------
(* Vocabulary of the properties *)

\* e[key] of a decoded value, None (Null) where e is no dict or has no key
Field(e, key) ==
    IF e.t = "obj" /\ HasKey(e.kv, key) THEN Get(e.kv, key) ELSE Null

\* the dicts among the elements of a decoded list, in order; none for a
\* value that is no list
Dicts(x) ==
    IF x.t = "arr" THEN SelectSeq(x.xs, LAMBDA e : e.t = "obj") ELSE <<>>

\* the keys of a dict, in order
Keys(kv) == [i \in 1..Len(kv) |-> kv[i][1]]

\* an int within lo..hi
IsIntIn(x, lo, hi) ==
    x.t = "num" /\ x.k = "int" /\ x.m = "fin" /\ ~NumLtNat(x, lo) /\ ~NumGtNat(x, hi)

\* a number >= 0
IsNonNegative(x) ==
    x.t = "num" /\ x.m # "nan" /\ ~NumNeg(x)

\* a value float() does not convert, or whose float int() does not convert
NoFloat(x) == PyFloat(x).exc # ""
NoInt(x) == NoFloat(x) \/ PyFloat(x).v.m \in {"nan", "inf"}

\* a == b of two numbers (bools count as 0 and 1; numbers kept only by their
\* size compare by it)
NumEq(a, b) ==
    /\ a.m # "nan" /\ b.m # "nan"
    /\ a.m = b.m /\ a.ip = b.ip /\ a.fr = b.fr
    /\ a.neg = b.neg \/ IsZero(a)

AsNum(x) == IF x.t = "bool" THEN Int_(IF x.b THEN 1 ELSE 0) ELSE x

\* a == b of two decoded values
RECURSIVE PyEq(_, _)
PyEq(a, b) ==
    CASE a.t \in {"num", "bool"} /\ b.t \in {"num", "bool"} -> NumEq(AsNum(a), AsNum(b))
      [] a.t = "arr" /\ b.t = "arr" ->
            /\ Len(a.xs) = Len(b.xs)
            /\ \A i \in 1..Len(a.xs) : PyEq(a.xs[i], b.xs[i])
      [] a.t = "obj" /\ b.t = "obj" ->
            /\ {a.kv[i][1] : i \in 1..Len(a.kv)} = {b.kv[i][1] : i \in 1..Len(b.kv)}
            /\ \A i \in 1..Len(a.kv) : PyEq(a.kv[i][2], Get(b.kv, a.kv[i][1]))
      [] OTHER -> a = b

\* the style with every line break of a string value escaped
Escaped_(st) == [st EXCEPT !.raw = FALSE]

\* a document with the carriage returns of its strings removed
RECURSIVE WithoutCR(_)
WithoutCR(d) ==
    CASE d.t = "S" -> DS(SelectSeq(d.s, LAMBDA ch : ch # CR))
      [] d.t = "A" -> DA([i \in 1..Len(d.xs) |-> WithoutCR(d.xs[i])])
      [] d.t = "O" -> DO([i \in 1..Len(d.kv) |-> <<d.kv[i][1], WithoutCR(d.kv[i][2])>>])
      [] OTHER -> d

\* a document with the string at key of every dict of a list set to c
Retag(item, key, c) ==
    IF item.t = "O"
    THEN DO([i \in 1..Len(item.kv) |->
                IF item.kv[i][1] = key /\ item.kv[i][2].t = "S"
                THEN <<key, DS(c)>> ELSE item.kv[i]])
    ELSE item

RetagAll(list, key, c) ==
    IF list.t = "A" THEN DA([i \in 1..Len(list.xs) |-> Retag(list.xs[i], key, c)])
    ELSE list

\* a document with every string category and event_type set to c
WithCategory(d, c) ==
    IF d.t = "O"
    THEN DO([i \in 1..Len(d.kv) |->
                IF d.kv[i][1] = K_key_findings
                THEN <<K_key_findings, RetagAll(d.kv[i][2], K_category, c)>>
                ELSE IF d.kv[i][1] = K_timestamp_events
                THEN <<K_timestamp_events, RetagAll(d.kv[i][2], K_event_type, c)>>
                ELSE d.kv[i]])
    ELSE d

\* the string values at key of the dicts of a document's list
DocTags(list, key) ==
    IF list.t = "A"
    THEN [i \in 1..Len(list.xs) |->
             IF list.xs[i].t = "O" /\ HasKey(list.xs[i].kv, key)
                /\ Get(list.xs[i].kv, key).t = "S"
             THEN Str(Get(list.xs[i].kv, key).s) ELSE Null]
    ELSE <<>>

\* the same of a decoded value
ValueTags(x, key) ==
    IF x.t = "arr" THEN [i \in 1..Len(x.xs) |-> Field(x.xs[i], key)] ELSE <<>>

\* key_findings or timestamp_events is present and no list
NonArrayField(v) ==
    /\ v.t = "obj"
    /\ \E key \in {K_key_findings, K_timestamp_events} :
          HasKey(v.kv, key) /\ Get(v.kv, key).t # "arr"

\* the call got past decoding and _sanitize_data has run
Sanitized == decoded.some /\ pc \in {"validate", "done"}

\* what C1 requires of a returned value, field by field
ConformingFinding(f) ==
    /\ f.t = "obj"
    /\ \A key \in {K_category, K_title, K_content} : Field(f, key).t = "str"
    /\ Field(f, K_confidence_score).t = "num"
    /\ NumIsIntegral(Field(f, K_confidence_score))
    /\ ~NumLtNat(Field(f, K_confidence_score), 0)
    /\ ~NumGtNat(Field(f, K_confidence_score), 100)

ConformingEvent(e) ==
    /\ e.t = "obj"
    /\ IsNonNegative(Field(e, K_timestamp_seconds))
    /\ \A key \in {K_event_type, K_title} : Field(e, key).t = "str"

Conforming(v) ==
    /\ v.t = "obj"
    /\ Field(v, K_video_analysis_md).t = "str"
    /\ Field(v, K_summary_md).t = "str"
    /\ Len(Field(v, K_summary_md).s) >= 10
    /\ Field(v, K_key_findings).t = "arr"
    /\ \A i \in 1..Len(Field(v, K_key_findings).xs) :
          ConformingFinding(Field(v, K_key_findings).xs[i])
    /\ Field(v, K_timestamp_events).t = "arr"
    /\ \A i \in 1..Len(Field(v, K_timestamp_events).xs) :
          ConformingEvent(Field(v, K_timestamp_events).xs[i])

----------------------------------------------------------------------------
(* The properties *)

\* C1: once parse has ended, it has returned either None or an object that
\* satisfies the whole SCHEMA: the four required keys with their types,
\* summary_md of at least 10 characters, every finding with string category,
\* title and content and an integer confidence_score in [0,100], every event
\* with timestamp_seconds >= 0 and string event_type and title.
C1_ValidObjectOrNone ==
    pc = "done" =>
        \/ result.kind = "none"
        \/ result.kind = "value" /\ Validate(result.v) /\ Conforming(result.v)

\* C2: parse never raises, whatever the text.
C2_NeverRaises ==
    result.kind # "raise"

\* C3: for a text that is valid JSON of an object conforming to SCHEMA, parse
\* returns an object equal to the decoded text.
C3_ValidRoundTrip ==
    (pc = "done" /\ Loads(response_text).ok /\ Loads(response_text).v.t = "obj"
        /\ Validate(Loads(response_text).v)) =>
        result.kind = "value" /\ PyEq(result.v, Loads(response_text).v)

\* C4: for a valid JSON object text J, parse of J inside a fenced block
\* (fence, optional json tag, J, fence) gives what parse(J) gives.
C4_FencedAsBare ==
    (pc = "done" /\ style.fence \in {"json", "bare"}
        /\ Loads(JsonText(doc, style)).ok /\ Loads(JsonText(doc, style)).v.t = "obj") =>
        result = Parse(JsonText(doc, style))

\* C5: for a text that is valid JSON but for physical line breaks inside
\* string values, _preprocess_response yields text that json.loads decodes,
\* to the value with each newline kept as a newline escape and each carriage
\* return removed.
C5_NewlinesRepaired ==
    (pc = "decode" /\ style.raw /\ style.fence = "none"
        /\ response_text # JsonText(doc, Escaped_(style))
        /\ Loads(JsonText(doc, Escaped_(style))).ok) =>
        /\ Loads(processed_text).ok
        /\ Loads(processed_text).v = Loads(JsonText(WithoutCR(doc), Escaped_(style))).v

\* C6: after _sanitize_data, every dict of key_findings that carried a
\* confidence_score carries an int within [0,100], which is 80 where the
\* value could not be coerced; and _sanitize_data did not raise (the
\* timestamp_events loop taken to return).
C6_ConfidenceCoerced ==
    (Sanitized /\ Field(decoded.v, K_key_findings).t = "arr"
        /\ SanitizeField(Returns(decoded.v), K_timestamp_events, FALSE).exc = "") =>
        /\ result.kind # "raise"
        /\ \A k \in 1..Len(Dicts(Field(decoded.v, K_key_findings))) :
              HasKey(Dicts(Field(decoded.v, K_key_findings))[k].kv, K_confidence_score) =>
                 /\ IsIntIn(Field(Dicts(Field(data.v, K_key_findings))[k],
                                  K_confidence_score), 0, 100)
                 /\ NoInt(Field(Dicts(Field(decoded.v, K_key_findings))[k],
                                K_confidence_score))
                       => Field(Dicts(Field(data.v, K_key_findings))[k],
                                K_confidence_score) = Int_(80)

\* C7: after _sanitize_data, every dict of timestamp_events that carried an
\* importance_score carries an int within [1,10], which is 5 where the value
\* could not be coerced, and every one that carried a timestamp_seconds
\* carries a number >= 0, which is 0.0 where the value could not be coerced
\* (the key_findings loop taken to return).
C7_EventScoresCoerced ==
    (Sanitized /\ Field(decoded.v, K_timestamp_events).t = "arr"
        /\ SanitizeField(Returns(decoded.v), K_key_findings, TRUE).exc = "") =>
        /\ result.kind # "raise"
        /\ \A k \in 1..Len(Dicts(Field(decoded.v, K_timestamp_events))) :
              /\ HasKey(Dicts(Field(decoded.v, K_timestamp_events))[k].kv, K_importance_score) =>
                    /\ IsIntIn(Field(Dicts(Field(data.v, K_timestamp_events))[k],
                                     K_importance_score), 1, 10)
                    /\ NoInt(Field(Dicts(Field(decoded.v, K_timestamp_events))[k],
                                   K_importance_score))
                          => Field(Dicts(Field(data.v, K_timestamp_events))[k],
                                   K_importance_score) = Int_(5)
              /\ HasKey(Dicts(Field(decoded.v, K_timestamp_events))[k].kv, K_timestamp_seconds) =>
                    /\ IsNonNegative(Field(Dicts(Field(data.v, K_timestamp_events))[k],
                                           K_timestamp_seconds))
                    /\ NoFloat(Field(Dicts(Field(decoded.v, K_timestamp_events))[k],
                                     K_timestamp_seconds))
                          => Field(Dicts(Field(data.v, K_timestamp_events))[k],
                                   K_timestamp_seconds) = Float_(0)

\* C8: when the decoded object has a summary_md of fewer than 10 characters,
\* parse returns None, by direct decoding and by fenced-block extraction.
C8_ShortSummaryRejected ==
    (pc = "done" /\ decoded.some /\ Field(decoded.v, K_summary_md).t = "str"
        /\ Len(Field(decoded.v, K_summary_md).s) < 10) =>
        result = ResNone

C10_CategoryIndependent ==
    pc = "done" =>
        /\ (result.kind = "value")
              <=> (Parse(ResponseText(WithCategory(doc, C_visual), style)).kind = "value")
        /\ (result.kind = "value" /\ doc.t = "O") =>
              /\ ValueTags(Field(result.v, K_key_findings), K_category)
                    = DocTags(Field(Obj(doc.kv), K_key_findings), K_category)
              /\ ValueTags(Field(result.v, K_timestamp_events), K_event_type)
                    = DocTags(Field(Obj(doc.kv), K_timestamp_events), K_event_type)

----------------------------------------------------------------------------
(* GeminiService *)

\* a video validate_video has a reason to refuse: no file, more than
\* 2 * 1024 MiB, or an extension (os.path.splitext, lower-cased) off the list
Refused(v) ==
    \/ ~v.exists
    \/ v.size.mib > 2 * 1024
    \/ v.size.mib = 2 * 1024 /\ v.size.rest > 0
    \/ LowerStr(SplitExt(v.path)) \notin SUPPORTED_FORMATS

\* a request was sent to the provider
Requested == uploads > 0 \/ polls > 0 \/ gets > 0 \/ generations > 0

\* C11: analyze_video on a video that does not exist, is larger than 2 GiB or
\* has an unsupported extension returns None and never sends an upload, a
\* poll or a generation request; a video that exists, is within the cap and
\* has a supported extension passes validation (the call goes on to the upload).
C11_InvalidVideoRefused ==
    call = "analyze_video" /\ g_pc # "analyze_video" =>
        IF Refused(video)
        THEN g_pc = "done" /\ g_result = ResNone /\ ~Requested
        ELSE g_pc = "upload_video" \/ g_pc = "attempt" \/ Requested

C11_OversizedRefused ==
    /\ call = "analyze_video" /\ g_pc = "done"
    /\ video.exists /\ SizeGt(video.size, MAX_FILE_SIZE)
    /\ LowerStr(SplitExt(video.path)) \in SUPPORTED_FORMATS

\* C12: one upload_video call sends at most 3 uploads; it stops at the first
\* that succeeds and returns that attempt's handle; after the failed attempt
\* k (k = 0, 1) it waits 2^k seconds before the next; after the third failure
\* it raises that error again without waiting.
C12_UploadRetries ==
    /\ uploads <= 3
    /\ Len(sleeps) <= 2 /\ sleeps = SubSeq(<<1, 2>>, 1, Len(sleeps))
    /\ g_pc = "attempt" => uploads = Len(sleeps)
    /\ g_pc = "backoff" => uploads = Len(sleeps) + 1 /\ uploads < 3
    /\ file_name # NoFile /\ call # "wait_for_file_active" =>
          uploads = Len(sleeps) + 1 /\ file_name = Handle(uploads - 1)
    /\ call = "upload_video" =>
          /\ clock = (IF Len(sleeps) > 0 THEN 1 ELSE 0) + (IF Len(sleeps) > 1 THEN 2 ELSE 0)
          /\ g_pc = "done" /\ video.exists =>
                \/ file_name # NoFile /\ g_result = ResValue(Str(file_name))
                \/ file_name = NoFile /\ g_result = ResRaise("APIError")
                      /\ uploads = 3 /\ sleeps = <<1, 2>>

C12_ThirdFailureRaised ==
    /\ call = "upload_video" /\ g_pc = "done"
    /\ uploads = 3 /\ g_result.kind = "raise"

\* what C13 says of every state of wait_for_file_active
C13_PollingSafe ==
    /\ g_result = ResValue(Bool(TRUE)) => state = "ACTIVE" /\ polls > 0
    /\ state = "ACTIVE" => g_pc = "done" /\ g_result = ResValue(Bool(TRUE))
    /\ state = "FAILED" => g_pc = "done" /\ g_result = ResValue(Bool(FALSE))
    /\ g_pc \in {"poll", "sleep"} => clock - start_time < timeout
    /\ g_pc = "done" /\ state \notin {"ACTIVE", "FAILED"} /\ g_result.kind # "raise" =>
          g_result = ResValue(Bool(FALSE)) /\ clock - start_time >= timeout
    /\ g_pc = "poll" /\ polls > 0 => clock = last_poll + 2

\* C13: wait_for_file_active returns True only if a poll saw ACTIVE, False as
\* soon as a poll sees FAILED, and False once the elapsed time reaches the
\* timeout; two consecutive polls are 2 seconds of sleep apart; and the loop
\* ends whatever states the provider reports.
C13_PollingTerminates ==
    [](call = "wait_for_file_active" => C13_PollingSafe) /\ <>(g_pc = "done")

C13_TimedOut ==
    /\ call = "wait_for_file_active" /\ g_pc = "done"
    /\ state = "PROCESSING" /\ polls > 1
    /\ g_result = ResValue(Bool(FALSE)) /\ clock - start_time >= timeout

\* C14: whatever validation, upload, polling, generation and parsing give,
\* errors of the provider's calls included, analyze_video returns a parsed
\* result or None; no exception reaches its caller.
C14_NoExceptionEscapes ==
    call = "analyze_video" =>
        /\ g_result.kind # "raise"
        /\ g_pc = "done" => g_result.kind \in {"none", "value"}

C14_ParserErrorCaught ==
    /\ call = "analyze_video" /\ g_pc = "done" /\ generations = 1
    /\ response = Answer(DS(<<"i","n","f">>))
    /\ g_result = ResNone

\* C15: one analyze_video call sends at most one generation request, and only
\* after upload_video returned a handle and a poll saw ACTIVE for it; when the
\* upload runs out of retries, the file is FAILED or the wait times out, no
\* generation request is sent and the call returns None.
C15_GenerationAfterActive ==
    call = "analyze_video" =>
        /\ generations <= 1
        /\ generations > 0 \/ g_pc \in {"get", "generate", "parse"} =>
              file_name # NoFile /\ polls > 0 /\ state = "ACTIVE"
        /\ g_pc = "done" /\ (file_name = NoFile \/ state # "ACTIVE") =>
              generations = 0 /\ g_result = ResNone

C15_GeneratedOnce ==
    /\ call = "analyze_video" /\ g_pc = "done"
    /\ generations = 1 /\ g_result.kind = "value"

----------------------------------------------------------------------------
(* PromptBuilder *)

\* the texts between the separators of s
RECURSIVE SplitBy(_, _)
SplitBy(s, sep) ==
    LET j == Find(s, sep, 1)
    IN  IF j = 0
        THEN <<s>>
        ELSE <<SubSeq(s, 1, j - 1)>> \o SplitBy(SubSeq(s, j + Len(sep), Len(s)), sep)

Sections == SplitBy(prompt, SEPARATOR)

\* the store is attached and has a default template of the last call's category
HasTask ==
    /\ prompt_dao
    /\ \E i \in 1..Len(store) :
          store[i].category = scenario_category /\ store[i].is_default = 1

HasContext == video_context.some /\ video_context.v # <<>>

IsTaskSection(s) == HasPrefix(s, 1, TASK_LABEL)
IsContextSection(s) == HasPrefix(s, 1, <<"INFO:">>)

\* C16: build_prompt returns its sections joined by the separator in the order
\* system, task, context, output format: the first is SYSTEM_PROMPT, the last
\* OUTPUT_FORMAT_PROMPT, the task section is there exactly when a store is
\* attached and has a default template of the category, the context section
\* exactly when a non-empty context is given.
C16_SectionsInOrder ==
    calls > 0 =>
        /\ Sections[1] = SYSTEM_PROMPT
        /\ Sections[Len(Sections)] = OUTPUT_FORMAT_PROMPT
        /\ Len(Sections) = 2 + (IF HasTask THEN 1 ELSE 0) + (IF HasContext THEN 1 ELSE 0)
        /\ HasTask => IsTaskSection(Sections[2])
        /\ HasContext => IsContextSection(Sections[Len(Sections) - 1])
        /\ \A i \in 2..(Len(Sections) - 1) :
              /\ IsTaskSection(Sections[i]) => HasTask /\ i = 2
              /\ IsContextSection(Sections[i]) => HasContext /\ i = Len(Sections) - 1

C16_AllFourSections ==
    /\ calls > 0 /\ Len(Sections) = 4
    /\ IsTaskSection(Sections[2]) /\ IsContextSection(Sections[3])

\* the template the last call rendered
Chosen ==
    store[CHOOSE i \in 1..Len(store) :
            /\ store[i].category = scenario_category /\ store[i].is_default = 1
            /\ \A j \in 1..(i - 1) :
                  ~(store[j].category = scenario_category /\ store[j].is_default = 1)]

\* the names a template declares
Declared(t) == {t.variables[i].name : i \in 1..Len(t.variables)} \ {<<>>}

\* the default a template declares for a name
DefaultOf(t, name) ==
    t.variables[CHOOSE i \in 1..Len(t.variables) :
                    /\ t.variables[i].name = name
                    /\ \A j \in 1..(i - 1) : t.variables[j].name # name].default

\* what stands for the placeholder of name: the supplied value, else the
\* declared default
ValueOf(t, supplied, name) ==
    IF HasKey(supplied, name) THEN Get(supplied, name) ELSE DefaultOf(t, name)

\* the content of a template from i on, each placeholder of a supplied or
\* declared name replaced by its value and everything else kept
RECURSIVE Substituted(_, _, _)
Substituted(t, supplied, i) ==
    LET names == {supplied[k][1] : k \in 1..Len(supplied)} \cup Declared(t)
        here == {n \in names : HasPrefix(t.prompt_content, i, Placeholder(n))}
    IN  IF i > Len(t.prompt_content)
        THEN <<>>
        ELSE IF here # {}
        THEN ValueOf(t, supplied, CHOOSE n \in here : TRUE)
             \o Substituted(t, supplied, i + Len(Placeholder(CHOOSE n \in here : TRUE)))
        ELSE <<t.prompt_content[i]>> \o Substituted(t, supplied, i + 1)

\* C17: in the task section of a build_prompt call every placeholder of a
\* name supplied in custom_variables is replaced by the supplied value, and
\* every placeholder the chosen template declares and custom_variables lacks
\* by the default that template declares for it.
C17_PlaceholdersReplaced ==
    calls > 0 /\ HasTask =>
        Sections[2] = TASK_LABEL \o Substituted(Chosen, passed.v, 1)

\* C18: build_prompt leaves the caller's custom_variables and video_context
\* as they were, and what a call returns depends on its own arguments and the
\* store only: a call given the caller's variables returns what it would have
\* returned had no call been made with that object before.
C18_PureFunction ==
    calls > 0 =>
        /\ custom_variables = variables0
        /\ prompt = BuildPrompt(prompt_dao, store, scenario_category, video_context, variables0)

----------------------------------------------------------------------------
(* The database *)

\* the last create inserted its row and returned the row's id, and the row
\* is read back by that id
Created(table) ==
    /\ d_exc = "" /\ d_ret # NULL
    /\ \E r \in db[table] : r.id = d_ret

\* C19: on a database DatabaseManager has just initialized, each step of the
\* chain RecordingDAO.create, KeyFrameVideoDAO.create, AIAnalysisDAO.create,
\* TimestampEventDAO.create, KeyFindingDAO.create succeeds: AIAnalysisDAO.create
\* of an analysis that refers to an existing keyframe video inserts the row
\* and returns its id, and the row and its children are read back by id and
\* by analysis id.
C19_DataChainSucceeds ==
    /\ op = "RecordingDAO.create"
          /\ (\A r \in db0.recording : r.original_video_path # op_path)
          => Created("recording")
    /\ op = "KeyFrameVideoDAO.create" /\ op_ref \in Ids(db0.recording)
          /\ (\A r \in db0.keyframe_video : r.keyframe_video_path # op_path)
          => Created("keyframe_video")
    /\ op = "AIAnalysisDAO.create" /\ op_ref \in Ids(db0.keyframe_video)
          => Created("ai_analysis")
             /\ \E r \in db.ai_analysis : r.id = d_ret /\ r.keyframe_id = op_ref
    /\ op = "TimestampEventDAO.create" /\ op_ref \in Ids(db0.ai_analysis)
          => Created("timestamp_event")
             /\ \E r \in db.timestamp_event : r.id = d_ret /\ r.analysis_id = op_ref
    /\ op = "KeyFindingDAO.create" /\ op_ref \in Ids(db0.ai_analysis)
          => Created("key_finding")
             /\ \E r \in db.key_finding : r.id = d_ret /\ r.analysis_id = op_ref
----------------------------------------------------------------------------
(* The saves, the cascade, the connections and the workers *)

SaveCalled == op = "HistoryService.save_ai_analysis_result"

\* the keyframe videos of a recording in a database
KeyframesOf(d, recording_id) == {k \in d.keyframe_video : k.recording_id = recording_id}

\* the analyses the saves made for a recording were given these ids
SavedFor(recording_id) == {l.analysis_id : l \in {l \in save_log : l.recording_id = recording_id}}

ParentOf(name) ==
    IF name = "KeyFrameVideoDAO.create" THEN "recording" ELSE "ai_analysis"

ChildCreates ==
    {"KeyFrameVideoDAO.create", "TimestampEventDAO.create", "KeyFindingDAO.create",
     "AnalysisMetadataDAO.create"}

\* C26: every open connection enforces foreign keys; no keyframe_video row
\* refers to a missing recording and no timestamp_event, key_finding or
\* analysis_metadata row to a missing ai_analysis; a create whose parent id
\* does not exist has raised and inserted nothing.
C26_ForeignKeysEnforced ==
    /\ \A t \in Threads : conns[t].open => conns[t].foreign_keys
    /\ \A k \in db.keyframe_video : k.recording_id \in Ids(db.recording)
    /\ \A r \in db.timestamp_event \cup db.key_finding \cup db.analysis_metadata :
          r.analysis_id \in Ids(db.ai_analysis)
    /\ (op \in ChildCreates /\ op_ref \notin Ids(db0[ParentOf(op)])) =>
          (d_exc = "IntegrityError" /\ d_ret = NULL /\ db = db0)

\* a keyframe video was created on the worker thread for a recording that
\* does not exist, while another recording does
C26_Witness ==
    /\ op = "KeyFrameVideoDAO.create" /\ op_thread = "worker"
    /\ op_ref \notin Ids(db0.recording) /\ db0.recording # {}
    /\ d_exc = "IntegrityError"

AiInFlight(id) == {w \in InFlight(running, events) : w.kind = "ai" /\ w.id = id}

\* C30: at most one AIAnalysisWorker is in flight for a record id, and a
\* startAIAnalysis for a record id that is in the processing set starts no
\* worker and changes nothing of the view model.
C30_OneWorkerPerRecord ==
    /\ \A id \in RecordIds : Cardinality(AiInFlight(id)) <= 1
    /\ (vm_op = "startAIAnalysis" /\ vm_id \in vm0.processing_ids) => VmState = vm0

\* startAIAnalysis was called for a record whose AIAnalysisWorker is in flight
C30_Witness ==
    /\ vm_op = "startAIAnalysis" /\ vm_id \in vm0.processing_ids
    /\ \E w \in InFlight(vm0.running, vm0.events) : w.kind = "ai" /\ w.id = vm_id
    /\ AiInFlight(vm_id) # {}

\* _sanitize_data was called and returned
SanitizeReturned == Sanitized /\ result.kind # "raise"

\* the keys _sanitize_data rewrites in an element of the list
Coerced(key) ==
    IF key = K_key_findings THEN {K_confidence_score, K_related_timestamps}
    ELSE {K_timestamp_seconds, K_importance_score}

\* out holds the dicts of the list before, one for one and in their order:
\* each has the keys of its original, and its values but for the coerced
KeepsDicts(before, out, coerced) ==
    /\ out.t = "arr"
    /\ \A k \in 1..Len(out.xs) : out.xs[k].t = "obj"
    /\ Len(out.xs) = Len(Dicts(before))
    /\ \A k \in 1..Len(Dicts(before)) :
          /\ Keys(out.xs[k].kv) = Keys(Dicts(before)[k].kv)
          /\ \A i \in 1..Len(out.xs[k].kv) :
                out.xs[k].kv[i][1] \notin coerced => out.xs[k].kv[i] = Dicts(before)[k].kv[i]

\* C27: after a call of _sanitize_data that returned, key_findings
\* (timestamp_events) that was a list holds the dicts of the list and nothing
\* else: every element that is no dict is gone, every dict is kept, and the
\* dicts are in the order they had.
C27_OnlyDictsKeptInOrder ==
    SanitizeReturned =>
        \A key \in {K_key_findings, K_timestamp_events} :
            Field(decoded.v, key).t = "arr" =>
                KeepsDicts(Field(decoded.v, key), Field(data.v, key), Coerced(key))

\* _sanitize_data returned for lists with two different dicts among elements
\* that are none
C27_Witness ==
    /\ SanitizeReturned
    /\ \A key \in {K_key_findings, K_timestamp_events} :
          /\ Field(decoded.v, key).t = "arr"
          /\ Len(Dicts(Field(decoded.v, key))) = 2
          /\ Len(Field(decoded.v, key).xs) >= 4
          /\ Dicts(Field(decoded.v, key))[1] # Dicts(Field(decoded.v, key))[2]
          /\ Len(Field(data.v, key).xs) = 2

\* the slots the terminal signal of a worker is delivered to
Handlers == {"_on_ai_analysis_finished", "_on_ai_analysis_error", "_on_render_finished"}

\* C31: once the terminal signal of a worker for r has been handled, the
\* handler has run to its end: it has taken r out of the processing set and
\* emitted processingCompleted(r) or errorOccurred, so that every
\* processingStarted(r) is followed by one of them.
C31_StartedThenCompleted ==
    vm_op \in Handlers =>
        /\ vm_id \notin processing_ids \/ Signal("processingStarted", vm_id) \in emitted
        /\ emitted \cap {Signal("processingCompleted", vm_id), Signal("errorOccurred", 0)} # {}
\* C32: whenever the analyzer is in realtime mode a current session exists,
\* after any sequence of its calls with any outcome of the API
C32_RealtimeHasSession ==
    is_realtime_mode(analyzer) => is_running(analyzer)

StartCalls == {"start_analysis", "start_file_analysis", "start_realtime_analysis"}

\* C33: a start call made while a session is current leaves that session
\* current: same session id, same key-frame results
C33_StartKeepsSession ==
    a_op \in StartCalls /\ is_running(analyzer0) =>
        analyzer.current_session = analyzer0.current_session

\* C34: when start_recording returns True in SNAPSHOT mode, the analyzer
\* has a current session and its recording_id is the id of the new recording
C34_AnalyzerSessionOfRecording ==
    r_step = "started" /\ recorder.pending_mode = "SNAPSHOT" =>
        /\ is_running(analyzer)
        /\ analyzer.current_session.recording_id = r_arg

\* C35: of the start_recording calls of concurrent threads at most one
\* succeeds until a stop_recording succeeds, and a call that finds a session
\* current returns False and leaves the session and the history database alone
C35_OneRecordingAtATime ==
    /\ live_starts <= 1
    /\ r_step = "check" /\ recorder0.current_session # NoRecording =>
            /\ r_ret[r_thread] = "False"
            /\ recorder = recorder0
            /\ history = history0

\* a call was refused because the recording another call started is current
C35_Witness ==
    /\ r_step = "check" /\ recorder0.current_session # NoRecording
    /\ r_ret[r_thread] = "False"
    /\ live_starts = 1
    /\ \E t \in Callers \ {r_thread} : r_call[t] = "start_recording" /\ r_ret[t] = "True"

\* C36: a start_recording call that began with no session and returns False
\* leaves no current session and no row of the attempted session in the
\* history database
C36_FailedStartLeavesNothing ==
    /\ r_step = "check" /\ recorder0.current_session = NoRecording /\ r_ret[r_thread] = "False" =>
            recorder.current_session = NoRecording /\ history = history0
    /\ r_step = "start" /\ r_ret[r_thread] = "False" =>
            /\ recorder.current_session = NoRecording
            /\ r_arg \notin Ids(history.db.recording)

\* C39: after delete_recording(R) returned True, R is in neither store, and
\* delete_recording returns True for every recording of the database
C39_DeleteFromBothStores ==
    /\ r_step = "deleted" =>
            r_arg \notin history.recordings /\ r_arg \notin Ids(history.db.recording)
    /\ r_step = "not deleted" => r_arg \notin Ids(history0.db.recording)

\* C37: every category has at most one default template, and a
\* set_as_default call that returns False changes no template
C37_OneDefaultPerCategory ==
    /\ \A category \in TemplateCategories :
            Cardinality(DefaultTemplates(templates, category)) <= 1
    /\ t_op = "set_as_default" /\ ~t_ret => templates = templates0

\* C38: concurrent constructions give every caller the same instance,
\* db_path is assigned and the schema is made once, and the instance keeps
\* the path it was given first
C38_InitializedOnce ==
    /\ \A t \in Constructors : m_got[t] \in {0, 1}
    /\ manager.assigned <= 1 /\ manager.schemas <= 1
    /\ manager.assigned >= 1 => manager.db_path = m_first


====
